---- MODULE Spec2Model ----
(***************************************************************************)
(* iptableslb: the reconciliation controller (controller.go), the desired- *)
(* state registry, the chain-identity scheme (chainid.go) and the          *)
(* netfilter tables the controller drives through go-iptables.             *)
(*                                                                         *)
(* Text.  A Go string that the code splits on " " is modelled in its split *)
(* form: a sequence of tokens.  A token is a sequence of atoms; an atom is *)
(* one character (digits, ".", ":") or an indivisible run of characters    *)
(* (a flag such as "--dport", a keyword, "/32", a field of a chain name).  *)
(* strings.Index over the joined text is then decided token by token with  *)
(* prefix and suffix tests on the atoms.                                   *)
(*                                                                         *)
(* Digests.  xxHash32 and the Pearson hash are modelled as collision-free: *)
(* a digest is represented by the byte stream that was written into it.    *)
(***************************************************************************)
EXTENDS Integers, Sequences, FiniteSets, TLC

\* ------------------------------------------------------------------ bounds
\* the clock (Unix seconds) runs over 1..MaxTime
MaxTime == 2
\* primitive netfilter operations that may fail for external reasons, per run
MaxFail == 1
\* longest outputs list handed to UpsertLoadbalancer
MaxOutputs == 2
\* registry calls, syncs and seconds per run
MaxEvents == 5

\* ------------------------------------------------------- program constants
ChainCreating == 0
ChainCreated == 1
ProtocolTCP == 1
ProtocolUDP == 2
chainIDPrefix == "LB$-"
NATTable == "nat"
FilterTable == "filter"
mainChainName == <<"iptableslb-prerouting">>
forwardChainName == <<"iptableslb-forward">>

\* ---------------------------------------------------------------- universe
\* the virtual services (-in) and the backends (-out) of the model
In1 == [Protocol |-> ProtocolTCP, IP |-> <<10, 50, 1, 1>>, Port |-> 80]
In2 == [Protocol |-> ProtocolTCP, IP |-> <<10, 50, 1, 2>>, Port |-> 80]
Inputs == {In1, In2}
\* the endpoints traffic is forwarded to: 10.100.0.1:81, 10.100.0.2:82, ...
Output(i) == [IP |-> <<10, 100, 0, i>>, Port |-> 80 + i]
Out1 == Output(1)
Out2 == Output(2)
Outputs == {Output(i) : i \in 1..MaxOutputs}
\* the chains iptables itself keeps in each table
BuiltinNat == {<<"PREROUTING">>, <<"INPUT">>, <<"OUTPUT">>, <<"POSTROUTING">>}
BuiltinFilter == {<<"INPUT">>, <<"FORWARD">>, <<"OUTPUT">>}
\* targets that are no chains
BuiltinTargets == {<<"DNAT">>, <<"ACCEPT">>}

\* -------------------------------------------------------------------- text
Digits == <<"0", "1", "2", "3", "4", "5", "6", "7", "8", "9">>

RECURSIVE Itoa(_)
\* fmt's %d
Itoa(n) ==
    IF n < 10 THEN <<Digits[n + 1]>>
    ELSE Itoa(n \div 10) \o <<Digits[(n % 10) + 1]>>

\* net.IP.String() of an IPv4 address
IPString(ip) ==
    Itoa(ip[1]) \o <<".">> \o Itoa(ip[2]) \o <<".">> \o Itoa(ip[3])
        \o <<".">> \o Itoa(ip[4])

ProtocolString(p) ==
    IF p = ProtocolTCP THEN <<"tcp">>
    ELSE IF p = ProtocolUDP THEN <<"udp">> ELSE <<"unknown">>

EndpointString(e) == IPString(e.IP) \o <<":">> \o Itoa(e.Port)

IsPrefix(p, s) == Len(p) <= Len(s) /\ SubSeq(s, 1, Len(p)) = p

IsSuffix(p, s) == Len(p) <= Len(s) /\ SubSeq(s, Len(s) - Len(p) + 1, Len(s)) = p

\* strings.Index(str, a + " " + b) >= 0 for two tokens a and b
StringsIndexPair(str, a, b) ==
    \E i \in 1..(Len(str) - 1) : IsSuffix(a, str[i]) /\ IsPrefix(b, str[i + 1])

RECURSIVE Flatten(_)
\* the characters of a string: its tokens joined by single spaces
Flatten(str) ==
    IF Len(str) = 0 THEN <<>>
    ELSE IF Len(str) = 1 THEN str[1]
    ELSE str[1] \o <<" ">> \o Flatten(Tail(str))

RECURSIVE SeqToSet(_)
SeqToSet(s) == IF s = <<>> THEN {} ELSE {Head(s)} \cup SeqToSet(Tail(s))

\* --------------------------------------------------------------- chain ids
GetLoadbalancerKey(proto, input) ==
    [Protocol |-> proto, IP |-> input.IP, Port |-> input.Port]

\* the digest of a byte buffer, collision-free
PearsonHash(buf) == buf

\* the seven bytes the checksum of a chain name covers
crcBuf(protocol, ip, port) ==
    <<protocol, ip[1], ip[2], ip[3], ip[4], port \div 256, port % 256>>

NewChainID(protocol, ip, port, lastUpdate, state, contentHash) ==
    [CRC |-> PearsonHash(crcBuf(protocol, ip, port)),
     Protocol |-> protocol, IP |-> ip, Port |-> port,
     LastUpdate |-> lastUpdate, State |-> state, ContentHash |-> contentHash]

AsLoadbalancerKey(c) == GetLoadbalancerKey(c.Protocol, [IP |-> c.IP, Port |-> c.Port])

\* ChainID.String(): the chain name, one token: the prefix, then the fields of
\* the 17-byte record in their order, then the padding that ends the base64
ChainIDString(c) ==
    <<chainIDPrefix, ToString(c.CRC), ToString(c.Protocol), ToString(c.IP),
      ToString(c.Port), ToString(c.LastUpdate), ToString(c.State)>>
        \o c.ContentHash \o <<"=">>

NoChainID ==
    [CRC |-> <<>>, Protocol |-> 0, IP |-> <<0, 0, 0, 0>>, Port |-> 0,
     LastUpdate |-> 0, State |-> 0, ContentHash |-> <<>>]

\* the end of a name whose last digit has its two spare bits set: DecodeString
\* drops them
SparePad == "+="

\* the ids whose fixed-width fields are the ones found in a name
DecodedFields(chain) ==
    {[Protocol |-> k.Protocol, IP |-> k.IP, Port |-> k.Port, LastUpdate |-> n, State |-> s] :
        k \in {k \in Inputs : /\ ToString(k.Protocol) = chain[3]
                              /\ ToString(k.IP) = chain[4]
                              /\ ToString(k.Port) = chain[5]},
        n \in {n \in 0..(MaxTime + 1) : ToString(n) = chain[6]},
        s \in {s \in {ChainCreating, ChainCreated} : ToString(s) = chain[7]}}

\* TryParseChainID: [ok, id]
TryParseChainID(chain) ==
    IF Len(chain) < 8 \/ chain[Len(chain)] \notin {"=", SparePad}
    THEN [ok |-> FALSE, id |-> NoChainID]
    ELSE IF chain[1] # chainIDPrefix
    THEN [ok |-> FALSE, id |-> NoChainID]
    ELSE IF DecodedFields(chain) = {}
    THEN [ok |-> FALSE, id |-> NoChainID]
    ELSE LET f == CHOOSE f \in DecodedFields(chain) : TRUE
             checksum == PearsonHash(crcBuf(f.Protocol, f.IP, f.Port))
         IN  IF ToString(checksum) # chain[2]
             THEN [ok |-> FALSE, id |-> NoChainID]
             ELSE [ok |-> TRUE,
                   id |-> [CRC |-> checksum, Protocol |-> f.Protocol, IP |-> f.IP,
                           Port |-> f.Port, LastUpdate |-> f.LastUpdate,
                           State |-> f.State,
                           ContentHash |-> SubSeq(chain, 8, Len(chain) - 1)]]

\* ------------------------------------------------------------- wire format
\* The chain name byte for byte, for the properties of the name itself.  A name
\* is a sequence of characters; a character is the value 0..63 of a digit of
\* the base64 alphabet, or one of the codes below.  Names hold no white space
\* (a listing is split at it).  uint32 values stay below 2^31.
PadChar == 64
DollarChar == 65
DashChar == 66
StarChar == 67
\* "LB$-"
chainIDPrefixWire == <<11, 1, DollarChar, DashChar>>

RECURSIVE Xor(_, _)
Xor(a, b) ==
    IF a = 0 THEN b
    ELSE IF b = 0 THEN a
    ELSE 2 * Xor(a \div 2, b \div 2) + ((a + b) % 2)

\* the permutation table of the Pearson hash
pearsonTable(x) == (167 * x + 13) % 256

RECURSIVE pearsonFrom(_, _)
pearsonFrom(h, buf) ==
    IF buf = <<>> THEN h ELSE pearsonFrom(pearsonTable(Xor(h, Head(buf))), Tail(buf))

\* the one-byte Pearson hash of a buffer
PearsonHashWire(buf) == pearsonFrom(0, buf)

\* C18 mutant: the port is written low byte first
PutUint16LittleEndian(v) == <<v % 256, v \div 256>>

\* binary.BigEndian
PutUint16(v) == <<v \div 256, v % 256>>

PutUint32(v) == <<v \div 16777216, (v \div 65536) % 256, (v \div 256) % 256, v % 256>>

Uint16(b) == 256 * b[1] + b[2]

Uint32(b) == 16777216 * b[1] + 65536 * b[2] + 256 * b[3] + b[4]

NewChainIDWire(protocol, ip, port, lastUpdate, state, contentHash) ==
    [CRC |-> PearsonHashWire(<<protocol, ip[1], ip[2], ip[3], ip[4]>> \o PutUint16(port)),
     Protocol |-> protocol, IP |-> ip, Port |-> port,
     LastUpdate |-> lastUpdate, State |-> state, ContentHash |-> contentHash]

\* the 17 bytes ChainID.String() fills
chainIDBuf(c) ==
    <<c.CRC, c.Protocol, c.IP[1], c.IP[2], c.IP[3], c.IP[4]>> \o PutUint16(c.Port)
        \o PutUint32(c.LastUpdate) \o <<c.State>> \o PutUint32(c.ContentHash)

RECURSIVE EncodeToString(_)
\* base64.StdEncoding.EncodeToString
EncodeToString(buf) ==
    IF Len(buf) = 0 THEN <<>>
    ELSE IF Len(buf) = 1
    THEN <<buf[1] \div 4, (buf[1] % 4) * 16, PadChar, PadChar>>
    ELSE IF Len(buf) = 2
    THEN <<buf[1] \div 4, (buf[1] % 4) * 16 + buf[2] \div 16, (buf[2] % 16) * 4, PadChar>>
    ELSE <<buf[1] \div 4, (buf[1] % 4) * 16 + buf[2] \div 16,
           (buf[2] % 16) * 4 + buf[3] \div 64, buf[3] % 64>>
             \o EncodeToString(SubSeq(buf, 4, Len(buf)))

ChainIDStringWire(c) == chainIDPrefixWire \o EncodeToString(chainIDBuf(c))

\* one group of four characters decoded: [ok, bytes]; padding only in the
\* last group; the bits of the last digit that no byte takes are dropped
decodeQuantum(q, last) ==
    IF \A i \in 1..4 : q[i] < 64
    THEN [ok |-> TRUE,
          bytes |-> <<4 * q[1] + q[2] \div 16, 16 * (q[2] % 16) + q[3] \div 4,
                      64 * (q[3] % 4) + q[4]>>]
    ELSE IF last /\ q[1] < 64 /\ q[2] < 64 /\ q[3] < 64 /\ q[4] = PadChar
    THEN [ok |-> TRUE, bytes |-> <<4 * q[1] + q[2] \div 16, 16 * (q[2] % 16) + q[3] \div 4>>]
    ELSE IF last /\ q[1] < 64 /\ q[2] < 64 /\ q[3] = PadChar /\ q[4] = PadChar
    THEN [ok |-> TRUE, bytes |-> <<4 * q[1] + q[2] \div 16>>]
    ELSE [ok |-> FALSE, bytes |-> <<>>]

RECURSIVE decodeQuanta(_)
decodeQuanta(str) ==
    IF Len(str) = 0 THEN [ok |-> TRUE, bytes |-> <<>>]
    ELSE IF Len(str) < 4 THEN [ok |-> FALSE, bytes |-> <<>>]
    ELSE LET q == decodeQuantum(SubSeq(str, 1, 4), Len(str) = 4)
             r == decodeQuanta(SubSeq(str, 5, Len(str)))
         IN  IF q.ok /\ r.ok THEN [ok |-> TRUE, bytes |-> q.bytes \o r.bytes]
             ELSE [ok |-> FALSE, bytes |-> <<>>]

\* C16 mutant: the buffer is as long as the bytes decoded
DecodedLenTight(str) == Len(decodeQuanta(str).bytes)

\* the length of the buffer DecodeString allocates for a string
DecodedLen(str) == (Len(str) \div 4) * 3

\* base64.StdEncoding.DecodeString: [ok, dbuf, n]: the zeroed buffer with the
\* n bytes decoded; the slice returned is dbuf[:n]
DecodeString(str) ==
    LET d == decodeQuanta(str)
    IN  [ok |-> d.ok,
         dbuf |-> d.bytes \o [i \in 1..(DecodedLen(str) - Len(d.bytes)) |-> 0],
         n |-> Len(d.bytes)]

NoChainIDWire ==
    [CRC |-> 0, Protocol |-> 0, IP |-> <<0, 0, 0, 0>>, Port |-> 0, LastUpdate |-> 0,
     State |-> 0, ContentHash |-> 0]

\* what a call of TryParseChainID ends with: a ChainID, one of its errors, or a
\* run-time panic (an index beyond the length or a slice beyond the capacity)
Parsed(kind, id, got, expected) == [kind |-> kind, id |-> id, got |-> got, expected |-> expected]

\* C19 mutant: the checksum is taken over data[1:7]
checksumShort(data) == PearsonHashWire(SubSeq(data, 2, 7))

\* checksum := PearsonHash(data[1:8])
checksum(data) == PearsonHashWire(SubSeq(data, 2, 8))

TryParseChainIDWire(chain) ==
    IF Len(chain) # 28 THEN Parsed("invalid length", NoChainIDWire, Len(chain), 28)
    ELSE IF SubSeq(chain, 1, Len(chainIDPrefixWire)) # chainIDPrefixWire
    THEN Parsed("no prefix", NoChainIDWire, 0, 0)
    ELSE LET d == DecodeString(SubSeq(chain, Len(chainIDPrefixWire) + 1, Len(chain)))
             data == d.dbuf
         IN  IF ~d.ok THEN Parsed("no base64", NoChainIDWire, 0, 0)
             ELSE IF d.n < 13 \/ Len(data) < 17 THEN Parsed("panic", NoChainIDWire, 0, 0)
             ELSE LET id == [CRC |-> data[1], Protocol |-> data[2],
                             IP |-> <<data[3], data[4], data[5], data[6]>>,
                             Port |-> Uint16(SubSeq(data, 7, 8)),
                             LastUpdate |-> Uint32(SubSeq(data, 9, 12)),
                             State |-> data[13],
                             ContentHash |-> Uint32(SubSeq(data, 14, 17))]
                  IN  IF checksum(data) # id.CRC
                      THEN Parsed("invalid CRC", NoChainIDWire, id.CRC, checksum(data))
                      ELSE Parsed("ok", id, 0, 0)

\* the values the fields of a ChainID are built from
WireProtocols == {ProtocolTCP, ProtocolUDP, 255}
WireIPs == {<<192, 168, 42, 69>>, <<10, 50, 1, 1>>}
WirePorts == {80, 1337, 65535}
WireTimes == {0, 1700000000}
WireStates == {ChainCreating, ChainCreated}
WireHashes == {0, 42133742}
\* the bytes written over a byte of a payload
WireBytes == {0, 66, 255}

\* names that ChainID.String() does not produce, made from the payload of one
\* that it does: other lengths, another prefix, no base64, payloads of 16 and
\* of 18 bytes, spare bits set in the last digit
ForeignNames(buf) ==
    {<<>>,
     <<3, 14, 2, 10, 4, 17>>,
     chainIDPrefixWire \o EncodeToString(buf) \o <<0>>,
     <<11, 1, DashChar, DashChar>> \o EncodeToString(buf),
     chainIDPrefixWire \o [EncodeToString(buf) EXCEPT ![5] = StarChar],
     chainIDPrefixWire \o [EncodeToString(buf) EXCEPT ![5] = PadChar],
     chainIDPrefixWire \o EncodeToString(SubSeq(buf, 1, 16)),
     chainIDPrefixWire \o EncodeToString(buf \o <<7>>),
     chainIDPrefixWire \o [EncodeToString(buf) EXCEPT ![23] = @ + 1],
     chainIDPrefixWire \o [i \in 1..24 |-> IF i <= 2 THEN 0 ELSE PadChar]}

\* ------------------------------------------------------ the netfilter driver
\* A table is a function from chain names to rule lists.  A rule is kept the
\* way iptables prints it: arguments in iptables' own order, addresses with
\* their mask, the protocol match spelled out.
ArgOf(spec, flag) ==
    LET at == {i \in 1..(Len(spec) - 1) : i % 2 = 1 /\ spec[i] = <<flag>>}
    IN  IF at = {} THEN <<>>
        ELSE spec[(CHOOSE i \in at : \A j \in at : i <= j) + 1]

HasPair(spec, flag, value) ==
    \E i \in 1..(Len(spec) - 1) : i % 2 = 1 /\ spec[i] = <<flag>> /\ spec[i + 1] = value

Opt(spec, flag) ==
    IF ArgOf(spec, flag) = <<>> THEN <<>> ELSE <<<<flag>>, ArgOf(spec, flag)>>

Masked(addr) == IF IsSuffix(<<"/32">>, addr) THEN addr ELSE addr \o <<"/32">>

OptMasked(spec, flag) ==
    IF ArgOf(spec, flag) = <<>> THEN <<>> ELSE <<<<flag>>, Masked(ArgOf(spec, flag))>>

\* what iptables -S shows for a rule appended with the arguments spec
Canonical(spec) ==
    OptMasked(spec, "-s") \o OptMasked(spec, "-d") \o Opt(spec, "-p")
        \o (IF ArgOf(spec, "--sport") # <<>> \/ ArgOf(spec, "--dport") # <<>>
            THEN <<<<"-m">>, ArgOf(spec, "-p")>> ELSE <<>>)
        \o Opt(spec, "--sport") \o Opt(spec, "--dport")
        \o (IF HasPair(spec, "-m", <<"statistic">>)
            THEN <<<<"-m">>, <<"statistic">>>> ELSE <<>>)
        \o Opt(spec, "--mode") \o Opt(spec, "--every")
        \o Opt(spec, "--packet") \o Opt(spec, "-j") \o Opt(spec, "--to-destination")

\* the target of a stored rule
TargetOf(r) == ArgOf(r, "-j")

\* chains and rules of a table, as iptables -S <chain> prints them
ListLines(tbl, chain) ==
    <<<<<<"-N">>, chain>>>> \o [i \in 1..Len(tbl[chain]) |-> <<<<"-A">>, chain>> \o tbl[chain][i]]

\* whether some rule of the table jumps to the chain
Referenced(tbl, chain) ==
    \E c \in DOMAIN tbl : \E i \in 1..Len(tbl[c]) : TargetOf(tbl[c][i]) = chain

\* iptables -N
CanNewChain(tbl, chain) == chain \notin DOMAIN tbl

DoNewChain(tbl, chain) == [c \in DOMAIN tbl \cup {chain} |-> IF c = chain THEN <<>> ELSE tbl[c]]

\* iptables -E: the rules move to the new name and the jumps follow
CanRenameChain(tbl, old, new) == old \in DOMAIN tbl /\ new \notin DOMAIN tbl

Retarget(r, old, new) ==
    [i \in 1..Len(r) |-> IF i > 1 /\ r[i - 1] = <<"-j">> /\ r[i] = old THEN new ELSE r[i]]

DoRenameChain(tbl, old, new) ==
    [c \in (DOMAIN tbl \ {old}) \cup {new} |->
        LET from == IF c = new THEN tbl[old] ELSE tbl[c]
        IN  [i \in 1..Len(from) |-> Retarget(from[i], old, new)]]

\* go-iptables ClearChain: iptables -N, and iptables -F when the chain exists
DoClearChain(tbl, chain) == [c \in DOMAIN tbl \cup {chain} |-> IF c = chain THEN <<>> ELSE tbl[c]]

\* iptables -X refuses a chain that has rules or is the target of a jump
CanDeleteChain(tbl, chain) ==
    chain \in DOMAIN tbl /\ tbl[chain] = <<>> /\ ~Referenced(tbl, chain)

DoDeleteChain(tbl, chain) == [c \in DOMAIN tbl \ {chain} |-> tbl[c]]

\* iptables -A refuses a missing chain and a jump to a missing chain
CanAppend(tbl, chain, spec) ==
    /\ chain \in DOMAIN tbl
    /\ ArgOf(spec, "-j") \in BuiltinTargets \cup DOMAIN tbl

DoAppend(tbl, chain, spec) == [tbl EXCEPT ![chain] = Append(@, Canonical(spec))]

\* iptables -D removes the first rule equal to the given one
CanDelete(tbl, chain, spec) ==
    chain \in DOMAIN tbl /\ \E i \in 1..Len(tbl[chain]) : tbl[chain][i] = Canonical(spec)

DoDelete(tbl, chain, spec) ==
    LET at == CHOOSE i \in 1..Len(tbl[chain]) :
                  /\ tbl[chain][i] = Canonical(spec)
                  /\ \A j \in 1..(i - 1) : tbl[chain][j] # Canonical(spec)
    IN  [tbl EXCEPT ![chain] = SubSeq(@, 1, at - 1) \o SubSeq(@, at + 1, Len(@))]

\* ------------------------------------------------- the controller's helpers
\* a Loadbalancer of the registry
Loadbalancer(lastUpdate, input, outputs) ==
    [LastUpdate |-> lastUpdate, Protocol |-> input.Protocol,
     Input |-> [IP |-> input.IP, Port |-> input.Port], Outputs |-> outputs]

Key(lb) == GetLoadbalancerKey(lb.Protocol, lb.Input)

GetChainID(lb, state, contentHash) ==
    NewChainID(lb.Protocol, lb.Input.IP, lb.Input.Port, lb.LastUpdate, state, contentHash)

\* the content hash 0 of a chain in state Creating
ZeroHash == <<"0">>

\* the adjacent pairs "flag value" of a rule
Tuples(rule) == {<<rule[i], rule[i + 1]>> : i \in {j \in 1..(Len(rule) - 1) : j % 2 = 1}}

allStringsInString(all, str) == \A t \in all : StringsIndexPair(str, t[1], t[2])

rulesContainRule(rules, rule) ==
    \E i \in 1..Len(rules) : allStringsInString(Tuples(rule), rules[i])

\* C30 mutant: the "-A <chain>" and "-N <chain>" tokens are hashed too
stripNothing(rule) == rule

RECURSIVE stripNARules(_)
stripNARules(rule) ==
    IF rule = <<>> THEN <<>>
    ELSE IF rule[1] = <<"-A">> \/ rule[1] = <<"-N">>
    THEN stripNARules(SubSeq(rule, 3, Len(rule)))
    ELSE <<rule[1]>> \o stripNARules(Tail(rule))

RECURSIVE HashStream(_)
\* the bytes calculateHashForRules writes into the hash
HashStream(rules) ==
    IF rules = <<>> THEN <<>>
    ELSE Flatten(stripNARules(Head(rules))) \o HashStream(Tail(rules))

\* xxHash32 (seed ContentHashSeed) of the written bytes, collision-free
Sum32(stream) == <<"#">> \o stream

calculateHashForRules(rules) == Sum32(HashStream(rules))

getRuleStringForMainChainEntryToChain(chain) ==
    <<<<"-p">>, ProtocolString(chain.Protocol), <<"-d">>, IPString(chain.IP),
      <<"--dport">>, Itoa(chain.Port), <<"-j">>, ChainIDString(chain)>>

\* getChainIDForMainChainRule: [ok, id]
getChainIDForMainChainRule(rule) ==
    LET at == {i \in 2..Len(rule) : IsPrefix(<<"-j">>, rule[i])}
    IN  IF at = {} THEN [ok |-> FALSE, id |-> NoChainID]
        ELSE LET start == CHOOSE i \in at : \A j \in at : i <= j
             IN  IF start = Len(rule) THEN [ok |-> FALSE, id |-> NoChainID]
                 ELSE TryParseChainID(rule[start + 1])

\* the DNAT rule createChainForLB formats for output i of lb (i = 1: the last,
\* catch-all rule)
DNATRule(lb, i) ==
    <<<<"-p">>, ProtocolString(lb.Protocol), <<"-d">>, IPString(lb.Input.IP),
      <<"--dport">>, Itoa(lb.Input.Port)>>
        \o (IF i > 1
            THEN <<<<"-m">>, <<"statistic">>, <<"--mode">>, <<"nth">>, <<"--every">>,
                   Itoa(i), <<"--packet">>, <<"0">>>>
            ELSE <<>>)
        \o <<<<"-j">>, <<"DNAT">>, <<"--to-destination">>, EndpointString(lb.Outputs[i])>>

\* C4 mutant: the rules are appended from the first output to the last
createChainRulesAscending(lb) == [n \in 1..Len(lb.Outputs) |-> DNATRule(lb, n)]

\* the rules createChainForLB appends, in the order it appends them
createChainRules(lb) ==
    [n \in 1..Len(lb.Outputs) |-> DNATRule(lb, Len(lb.Outputs) + 1 - n)]

getSrcForwardRuleStringForEndpointAndProt(endpoint, prot) ==
    <<<<"-p">>, ProtocolString(prot), <<"-s">>, IPString(endpoint.IP),
      <<"--sport">>, Itoa(endpoint.Port), <<"-j">>, <<"ACCEPT">>>>

getDstForwardRuleStringForEndpointAndProt(endpoint, prot) ==
    <<<<"-p">>, ProtocolString(prot), <<"-d">>, IPString(endpoint.IP),
      <<"--dport">>, Itoa(endpoint.Port), <<"-j">>, <<"ACCEPT">>>>

\* the token after the last token equal to flag, <<>> when there is none
LastArg(args, flag) ==
    LET at == {i \in 1..(Len(args) - 1) : args[i] = <<flag>>}
    IN  IF at = {} THEN <<>> ELSE args[(CHOOSE i \in at : \A j \in at : j <= i) + 1]

\* the token after the first token equal to flag
FirstArg(args, flag) ==
    LET at == {i \in 1..(Len(args) - 1) : args[i] = <<flag>>}
    IN  IF at = {} THEN <<>> ELSE args[(CHOOSE i \in at : \A j \in at : i <= j) + 1]

\* TryParseEndpoint over the endpoints of the model: [ok, ep]
TryParseEndpoint(str) ==
    IF \E e \in Outputs : EndpointString(e) = str
    THEN [ok |-> TRUE, ep |-> CHOOSE e \in Outputs : EndpointString(e) = str]
    ELSE [ok |-> FALSE, ep |-> [IP |-> <<0, 0, 0, 0>>, Port |-> 0]]

\* getDestinationFromRule: [ok, ep]
getDestinationFromRule(rule) ==
    IF FirstArg(rule, "--to-destination") = <<>>
    THEN [ok |-> FALSE, ep |-> [IP |-> <<0, 0, 0, 0>>, Port |-> 0]]
    ELSE TryParseEndpoint(FirstArg(rule, "--to-destination"))

RECURSIVE Atoi(_)
\* strconv.Atoi of a token of digits (-1: not a number)
Atoi(tok) ==
    IF tok = <<>> THEN -1
    ELSE LET d == {n \in 0..9 : Digits[n + 1] = tok[Len(tok)]}
         IN  IF d = {} THEN -1
             ELSE IF Len(tok) = 1 THEN CHOOSE n \in d : TRUE
             ELSE IF Atoi(SubSeq(tok, 1, Len(tok) - 1)) < 0 THEN -1
             ELSE 10 * Atoi(SubSeq(tok, 1, Len(tok) - 1)) + (CHOOSE n \in d : TRUE)

\* the address without its mask: the text before the last "/"
Unmasked(addr) == IF IsSuffix(<<"/32">>, addr) THEN SubSeq(addr, 1, Len(addr) - 1) ELSE addr

\* getDestinationFromForwardRule: [ok, ep], ep the text of the endpoint
getDestinationFromForwardRule(rule) ==
    LET sIP == LastArg(rule, "-s")
        dIP == LastArg(rule, "-d")
        sPort == IF LastArg(rule, "--sport") = <<>> THEN 0 ELSE Atoi(LastArg(rule, "--sport"))
        dPort == IF LastArg(rule, "--dport") = <<>> THEN 0 ELSE Atoi(LastArg(rule, "--dport"))
    IN  IF sPort < 0 \/ dPort < 0 THEN [ok |-> FALSE, ep |-> <<>>, ip |-> <<>>]
        ELSE IF sIP # <<>> /\ dIP # <<>> THEN [ok |-> FALSE, ep |-> <<>>, ip |-> <<>>]
        ELSE IF sPort # 0 /\ dPort # 0 THEN [ok |-> FALSE, ep |-> <<>>, ip |-> <<>>]
        ELSE IF sIP # <<>> /\ sPort # 0
        THEN [ok |-> TRUE, ep |-> Unmasked(sIP) \o <<":">> \o Itoa(sPort), ip |-> Unmasked(sIP)]
        ELSE IF dIP # <<>> /\ dPort # 0
        THEN [ok |-> TRUE, ep |-> Unmasked(dIP) \o <<":">> \o Itoa(dPort), ip |-> Unmasked(dIP)]
        ELSE [ok |-> FALSE, ep |-> <<>>, ip |-> <<>>]

\* strings.ReplaceAll(rule, ip + "/32", ip)
ReplaceMask(rule, ip) ==
    [i \in 1..Len(rule) |->
        IF IsSuffix(ip \o <<"/32">>, rule[i]) THEN SubSeq(rule[i], 1, Len(rule[i]) - 1)
        ELSE rule[i]]

\* C17 mutant: findChainIDs keeps what TryParseChainID returned with an error
findChainIDsAll(chains) == {TryParseChainID(c).id : c \in chains}

\* findChainIDs: the ids of the names that parse
findChainIDs(chains) == {TryParseChainID(c).id : c \in {c \in chains : TryParseChainID(c).ok}}

\* mapLoadbalancerKeyToChainIDs: the keys of the map, and the chains of a key
lbToChainsKeys(chainIDs, lbs) == {AsLoadbalancerKey(c) : c \in chainIDs} \cup DOMAIN lbs

lbChains(chainIDs, lbKey) == {c \in chainIDs : AsLoadbalancerKey(c) = lbKey}

\* C29 mutant: the state of a chain is not looked at
getChainIDsOfAnyState(chainIDs, state) == chainIDs

getChainIDsWithState(chainIDs, state) == {c \in chainIDs : c.State = state}

\* C8 mutant: no chain is taken to be referenced by the main chain
chainIDsContainNone(ids, id) == FALSE

chainIDsContainID(ids, id) == \E i \in ids : ChainIDString(i) = ChainIDString(id)

\* getLatestChainID: the chain the loop ends with (the first of the highest
\* LastUpdate in the order of the listing, which the model leaves open)
getLatestChainID(chainIDs) ==
    IF \A c \in chainIDs : c.LastUpdate = 0 THEN {NoChainID}
    ELSE {c \in chainIDs : \A d \in chainIDs : d.LastUpdate <= c.LastUpdate}

\* the outputs lists a caller may hand to UpsertLoadbalancer (no endpoint twice:
\* the updater builds them with EndpointsAppendUnique and EndpointsRemove)
OutputLists == {[i \in 1..n |-> Output(i)] : n \in 0..MaxOutputs}

\* the calls of UpsertLoadbalancer tried: every list for the first input, the
\* lists of at most one output for the others
UpsertArgs == {a \in Inputs \X OutputLists : a[1] = In1 \/ Len(a[2]) <= 1}

\* the in-place writes of a caller tried: the first element of the outputs of
\* the first input, overwritten with the last endpoint
OverwriteArgs == {<<In1, 1, Output(MaxOutputs)>>}

\* the nat table the controller is started on: the built-in chains and a
\* chain of another tool that PREROUTING jumps to
ForeignChain == <<"DOCKER">>

\* a name with the controller's prefix and fields (state Creating) but another
\* checksum
BadCRCChain ==
    [ChainIDString(NewChainID(ProtocolTCP, In1.IP, In1.Port, 1, ChainCreating, ZeroHash))
        EXCEPT ![2] = "0"]

ForeignRules == <<<<<<"-j">>, <<"RETURN">>>>>>

InitNat ==
    [c \in BuiltinNat \cup {ForeignChain} |->
        IF c = <<"PREROUTING">> THEN <<<<<<"-j">>, ForeignChain>>>>
        ELSE IF c = ForeignChain THEN ForeignRules
        ELSE <<>>]

\* ------------------------------------------------------------------- state
VARIABLES
    loadbalancers,  \* Controller.loadbalancers: key -> Loadbalancer
    nat,            \* the kernel's nat table: chain name -> rules
    filter,         \* the kernel's filter table
    now,            \* time.Now().Unix()
    task,           \* 0: no sync runs (mutex free); n: task n of sync() runs
    allChains,      \* the listing sync() took for the running task
    rules,          \* the rules the running task listed when it began
    todo,           \* what the running task's loop has still to visit
    pend,           \* the primitive operations still to issue for the visited item
    errors,         \* increase of metrics.ErrorsTotal since the sync began
    failed,         \* primitive operations that failed since the sync began
    inj,            \* driver failures and foreign edits of the tables, so far
    events,         \* registry calls, syncs begun and seconds passed, so far
    lastOp,         \* the primitive operation the last step issued
    pre,            \* history: registry and tables as the running sync found them
    quiet,          \* history: the last sync had no failure, nothing changed since
    changed,        \* history: keys whose outputs a call changed, not yet synced
    started,        \* Controller.started
    stopCh,         \* Controller.stopCh is closed
    mainLoopStopCh, \* the channel loop() returned to Run is closed
    looping,        \* the goroutine of loop() exists
    stopPc,         \* the caller of Stop(): 0 not called, 1 in its wait loop, 2 returned
    wire            \* the chain name under test and what was done with it

\* what Run and Stop work on
life == <<started, stopCh, mainLoopStopCh, looping, stopPc>>

vars ==
    <<loadbalancers, nat, filter, now, task, allChains, rules, todo, pend,
      errors, failed, inj, events, lastOp, pre, quiet, changed, life, wire>>

\* no chain name is under test
NoWire == [op |-> "none", from |-> "none", id |-> NoChainIDWire, buf |-> <<>>, name |-> <<>>,
           res |-> Parsed("none", NoChainIDWire, 0, 0)]

NoKey == [Protocol |-> 0, IP |-> <<0, 0, 0, 0>>, Port |-> 0]

NoOp == [op |-> "none", table |-> "", chain |-> <<>>, spec |-> <<>>, to |-> <<>>,
         ok |-> TRUE, had |-> FALSE, ref |-> FALSE]

\* a primitive operation a task has decided to issue
Op(kind, table, chain, spec, abort, lb) ==
    [op |-> kind, table |-> table, chain |-> chain, spec |-> spec, abort |-> abort,
     lb |-> lb]

Table(t) == IF t = NATTable THEN nat ELSE filter

NoPre == [lbs |-> <<>>, nat |-> <<>>, filter |-> <<>>]

\* NewController: the fields Run and Stop work on
NewLife ==
    /\ started = FALSE
    /\ stopCh = FALSE
    /\ mainLoopStopCh = FALSE
    /\ looping = FALSE
    /\ stopPc = 0

\* the state NewController returns, i external failures having been spent
InitOn(i, table, w) ==
    /\ NewLife
    /\ loadbalancers = <<>>
    /\ nat = table
    /\ filter = [c \in BuiltinFilter |-> <<>>]
    /\ now = 1
    /\ task = 0
    /\ allChains = {}
    /\ rules = <<>>
    /\ todo = {}
    /\ pend = <<>>
    /\ errors = 0
    /\ failed = 0
    /\ inj = i
    /\ events = 0
    /\ lastOp = NoOp
    /\ pre = NoPre
    /\ quiet = FALSE
    /\ changed = {}
    /\ wire = w

InitWith(i) == InitOn(i, InitNat, NoWire)

Init == InitWith(0)

\* ---------------------------------------------------------------- registry
\* C13 mutant: the registry calls and sync() do not wait for the mutex
LockUnguarded == TRUE

\* c.Lock() returns: no sync holds the controller's mutex (a registry call
\* takes and releases it within its step)
Lock == task = 0

MarkUpdated(lb) == [lb EXCEPT !.LastUpdate = now]

\* C11 mutant: UpsertLoadbalancer without its branch for an empty outputs list
upsertedAlways(k, outputs) ==
    [x \in DOMAIN loadbalancers \cup {k} |->
        IF x = k THEN MarkUpdated(Loadbalancer(0, k, outputs)) ELSE loadbalancers[x]]

\* the registry UpsertLoadbalancer leaves: an empty outputs list deletes the
\* entry, any other list stores a copy of the value, marked updated
upserted(k, outputs) ==
    IF Len(outputs) = 0
    THEN [x \in DOMAIN loadbalancers \ {k} |-> loadbalancers[x]]
    ELSE [x \in DOMAIN loadbalancers \cup {k} |->
             IF x = k THEN MarkUpdated(Loadbalancer(0, k, outputs))
             ELSE loadbalancers[x]]

UpsertLoadbalancer(k, outputs) ==
    /\ Lock
    /\ events < MaxEvents
    /\ events' = events + 1
    /\ loadbalancers' = upserted(k, outputs)
    /\ quiet' = (quiet /\ loadbalancers' = loadbalancers)
    /\ changed' =
          IF Len(outputs) = 0 THEN changed \ {k}
          ELSE IF k \in DOMAIN loadbalancers /\ loadbalancers[k].Outputs # outputs
          THEN changed \cup {k}
          ELSE changed
    /\ lastOp' = NoOp
    /\ UNCHANGED <<nat, filter, now, task, allChains, rules, todo, pend, errors, failed,
                   inj, pre, life, wire>>

DeleteLoadbalancer(k) ==
    /\ Lock
    /\ events < MaxEvents
    /\ events' = events + 1
    /\ loadbalancers' = [x \in DOMAIN loadbalancers \ {k} |-> loadbalancers[x]]
    /\ quiet' = (quiet /\ loadbalancers' = loadbalancers)
    /\ changed' = changed \ {k}
    /\ lastOp' = NoOp
    /\ UNCHANGED <<nat, filter, now, task, allChains, rules, todo, pend, errors, failed,
                   inj, pre, life, wire>>

\* the caller of UpsertLoadbalancer keeps the value it passed.  The stored copy
\* (lbCopy := *lb) holds the slice header of its Outputs, so the record and the
\* caller's value share one backing array: the caller overwrites element i of
\* its outputs in place
CallerOverwritesOutput(k, i, e) ==
    /\ task = 0
    /\ events < MaxEvents
    /\ k \in DOMAIN loadbalancers
    /\ i \in 1..Len(loadbalancers[k].Outputs)
    /\ loadbalancers[k].Outputs[i] # e
    /\ events' = events + 1
    /\ loadbalancers' = [loadbalancers EXCEPT ![k].Outputs[i] = e]
    /\ quiet' = FALSE
    /\ lastOp' = NoOp
    /\ UNCHANGED <<nat, filter, now, task, allChains, rules, todo, pend, errors, failed,
                   inj, pre, changed, life, wire>>

\* the process is killed, anywhere in a sync or between two, and started
\* again: NewController begins with an empty registry on the tables as they are
NewController ==
    /\ inj < MaxFail
    /\ inj' = inj + 1
    /\ loadbalancers' = <<>>
    /\ task' = 0
    /\ allChains' = {}
    /\ rules' = <<>>
    /\ todo' = {}
    /\ pend' = <<>>
    /\ errors' = 0
    /\ failed' = 0
    /\ lastOp' = NoOp
    /\ pre' = NoPre
    /\ quiet' = FALSE
    /\ changed' = {}
    /\ started' = FALSE
    /\ stopCh' = FALSE
    /\ mainLoopStopCh' = FALSE
    /\ looping' = FALSE
    /\ stopPc' = 0
    /\ UNCHANGED <<nat, filter, now, events, wire>>

\* a second passes.  UpsertLoadbalancer and task 2 of a sync read the clock; a
\* tick during a sync is seen by the sync as one before it or by the next
\* call as one after it.
Tick ==
    /\ task = 0
    /\ now < MaxTime
    /\ events < MaxEvents
    /\ now' = now + 1
    /\ events' = events + 1
    /\ lastOp' = NoOp
    /\ UNCHANGED <<loadbalancers, nat, filter, task, allChains, rules, todo, pend,
                   errors, failed, inj, pre, quiet, changed, life, wire>>

\* --------------------------------------------------------------- lifecycle
\* Run(): sets started and starts the goroutine that starts loop() and then
\* waits for stopCh
Run ==
    /\ ~started
    /\ ~stopCh
    /\ started' = TRUE
    /\ looping' = TRUE
    /\ UNCHANGED <<loadbalancers, nat, filter, now, task, allChains, rules, todo, pend,
                   errors, failed, inj, events, lastOp, pre, quiet, changed, stopCh,
                   mainLoopStopCh, stopPc, wire>>

\* Stop() is called: it closes stopCh and begins to poll started
Stop ==
    /\ stopPc = 0
    /\ started
    /\ stopCh' = TRUE
    /\ stopPc' = 1
    /\ UNCHANGED <<loadbalancers, nat, filter, now, task, allChains, rules, todo, pend,
                   errors, failed, inj, events, lastOp, pre, quiet, changed, started,
                   mainLoopStopCh, looping, wire>>

\* the goroutine of Run has received from stopCh: it closes the loop's stop
\* channel and clears started, without waiting for the loop
RunReturns ==
    /\ started
    /\ stopCh
    /\ mainLoopStopCh' = TRUE
    /\ started' = FALSE
    /\ UNCHANGED <<loadbalancers, nat, filter, now, task, allChains, rules, todo, pend,
                   errors, failed, inj, events, lastOp, pre, quiet, changed, stopCh,
                   looping, stopPc, wire>>

\* Stop() finds started cleared and returns
StopReturns ==
    /\ stopPc = 1
    /\ ~started
    /\ stopPc' = 2
    /\ UNCHANGED <<loadbalancers, nat, filter, now, task, allChains, rules, todo, pend,
                   errors, failed, inj, events, lastOp, pre, quiet, changed, started,
                   stopCh, mainLoopStopCh, looping, wire>>

\* the select of loop() takes the stop case: the goroutine returns.  It is at
\* its select only when cb(), that is sync(), is not running
LoopReturns ==
    /\ looping
    /\ mainLoopStopCh
    /\ task = 0
    /\ looping' = FALSE
    /\ UNCHANGED <<loadbalancers, nat, filter, now, task, allChains, rules, todo, pend,
                   errors, failed, inj, events, lastOp, pre, quiet, changed, started,
                   stopCh, mainLoopStopCh, stopPc, wire>>

\* -------------------------------------------------------------------- sync
\* C15 mutant: a task begins while the loop of the one before it still runs
ReadyEarly(n) ==
    IF n = 1 THEN looping /\ Lock /\ events < MaxEvents ELSE task = n - 1 /\ pend = <<>>

\* sync() runs its tasks in order; task n begins when task n - 1 has returned
\* (the first one when the timer of loop() has fired and the mutex is free)
Ready(n) ==
    IF n = 1 THEN looping /\ Lock /\ events < MaxEvents ELSE task = n - 1 /\ todo = {} /\ pend = <<>>

\* the counters at the start of task n: a sync starts counting at 0
Errors0(n) == IF n = 1 THEN 0 ELSE errors

Failed0(n) == IF n = 1 THEN 0 ELSE failed

\* task n begins: the listing it got, the rules it listed, its loop, the
\* operations it already decided on, errors counted, primitives failed (of which
\* for external reasons)
Enter(n, chains, rs, td, pd, de, df, di) ==
    /\ task' = n
    /\ allChains' = chains
    /\ rules' = rs
    /\ todo' = td
    /\ pend' = pd
    /\ errors' = Errors0(n) + de
    /\ failed' = Failed0(n) + df
    /\ inj' = inj + di
    /\ events' = IF n = 1 /\ events < MaxEvents THEN events + 1 ELSE events
    /\ lastOp' = NoOp
    /\ pre' = IF n = 1 THEN [lbs |-> loadbalancers, nat |-> nat, filter |-> filter] ELSE pre
    /\ UNCHANGED <<quiet, changed, life, wire>>

\* sync(): ListChains(nat) fails, the error is counted and the task is skipped
ListChainsFails(n) ==
    /\ Ready(n)
    /\ inj < MaxFail
    /\ Enter(n, {}, <<>>, {}, <<>>, 1, 1, 1)
    /\ UNCHANGED <<loadbalancers, nat, filter, now>>

\* the loop of the running task visits an item that needs the operations ops
Visit(item, ops) ==
    /\ pend = <<>>
    /\ item \in todo
    /\ todo' = todo \ {item}
    /\ pend' = ops
    /\ lastOp' = NoOp
    /\ UNCHANGED <<loadbalancers, nat, filter, now, task, allChains, rules, errors,
                   failed, inj, events, pre, quiet, changed, life, wire>>

\* C28 mutant: the chain is flushed and left in the table
deleteChainFlushOnly(chainID) ==
    <<Op("clear", NATTable, ChainIDString(chainID), <<>>, TRUE, NoKey)>>

\* deleteChain: flush, then delete; the first error ends it
deleteChain(chainID) ==
    <<Op("clear", NATTable, ChainIDString(chainID), <<>>, TRUE, NoKey),
      Op("deletechain", NATTable, ChainIDString(chainID), <<>>, TRUE, NoKey)>>

\* T1
deleteChainsStuckInCreation ==
    /\ Ready(1)
    /\ Enter(1, DOMAIN nat, <<>>,
             getChainIDsWithState(findChainIDs(DOMAIN nat), ChainCreating), <<>>, 0, 0, 0)
    /\ UNCHANGED <<loadbalancers, nat, filter, now>>

deleteChainStuckInCreation(chainID) ==
    /\ task = 1
    /\ Visit(chainID, deleteChain(chainID))

\* T2
refreshLoadbalancersWithBrokenChains ==
    /\ Ready(2)
    /\ Enter(2, DOMAIN nat, <<>>,
             {c \in findChainIDs(DOMAIN nat) : AsLoadbalancerKey(c) \in DOMAIN loadbalancers},
             <<>>, 0, 0, 0)
    /\ UNCHANGED <<loadbalancers, nat, filter, now>>

\* one chain of the inner loop: list it, hash it, compare with its name
refreshLoadbalancerWithBrokenChain(chain) ==
    /\ task = 2
    /\ chain \in todo
    /\ todo' = todo \ {chain}
    /\ lastOp' = NoOp
    /\ \/ /\ ChainIDString(chain) \in DOMAIN nat
          /\ loadbalancers' =
                IF calculateHashForRules(ListLines(nat, ChainIDString(chain)))
                       # chain.ContentHash
                THEN [loadbalancers EXCEPT ![AsLoadbalancerKey(chain)] = MarkUpdated(@)]
                ELSE loadbalancers
          /\ UNCHANGED <<errors, failed, inj>>
       \/ /\ ChainIDString(chain) \notin DOMAIN nat \/ inj < MaxFail
          /\ errors' = errors + 1
          /\ failed' = failed + 1
          /\ inj' = IF ChainIDString(chain) \in DOMAIN nat THEN inj + 1 ELSE inj
          /\ UNCHANGED loadbalancers
    /\ UNCHANGED <<nat, filter, now, task, allChains, rules, pend, events, pre, quiet, changed, life, wire>>

\* T3
ensureForwardChainExists ==
    /\ Ready(3)
    /\ \/ Enter(3, DOMAIN nat, <<>>, {},
                IF forwardChainName \in DOMAIN filter THEN <<>>
                ELSE <<Op("new", FilterTable, forwardChainName, <<>>, TRUE, NoKey)>>,
                0, 0, 0)
       \/ /\ inj < MaxFail
          /\ Enter(3, DOMAIN nat, <<>>, {}, <<>>, 1, 1, 1)
    /\ UNCHANGED <<loadbalancers, nat, filter, now>>

\* the appends ensureForwardChainEntries decides on for one loadbalancer
RECURSIVE forwardEntries(_, _, _)
forwardEntries(lb, rs, i) ==
    IF i > Len(lb.Outputs) THEN <<>>
    ELSE LET srcRule == getSrcForwardRuleStringForEndpointAndProt(lb.Outputs[i], lb.Protocol)
             dstRule == getDstForwardRuleStringForEndpointAndProt(lb.Outputs[i], lb.Protocol)
         IN  (IF rulesContainRule(rs, srcRule) THEN <<>>
              ELSE <<Op("append", FilterTable, forwardChainName, srcRule, FALSE, Key(lb))>>)
             \o (IF rulesContainRule(rs, dstRule) THEN <<>>
                 ELSE <<Op("append", FilterTable, forwardChainName, dstRule, FALSE, Key(lb))>>)
             \o forwardEntries(lb, rs, i + 1)

\* T4
ensureForwardChainEntries ==
    /\ Ready(4)
    /\ \/ /\ forwardChainName \in DOMAIN filter
          /\ Enter(4, DOMAIN nat, ListLines(filter, forwardChainName),
                   {k \in DOMAIN loadbalancers :
                       forwardEntries(loadbalancers[k],
                                      ListLines(filter, forwardChainName), 1) # <<>>},
                   <<>>, 0, 0, 0)
       \/ /\ forwardChainName \notin DOMAIN filter
          /\ Enter(4, DOMAIN nat, <<>>, {}, <<>>, 1, 1, 0)
       \/ /\ inj < MaxFail
          /\ Enter(4, DOMAIN nat, <<>>, {}, <<>>, 1, 1, 1)
    /\ UNCHANGED <<loadbalancers, nat, filter, now>>

ensureForwardChainEntriesOf(lbKey) ==
    /\ task = 4
    /\ Visit(lbKey, forwardEntries(loadbalancers[lbKey], rules, 1))

\* C9 mutant: the main chain is created whether it is listed or not
ensureMainChainExistsAlways ==
    /\ Ready(5)
    /\ Enter(5, DOMAIN nat, <<>>, {},
             <<Op("new", NATTable, mainChainName, <<>>, TRUE, NoKey)>>, 0, 0, 0)
    /\ UNCHANGED <<loadbalancers, nat, filter, now>>

\* T5
ensureMainChainExists ==
    /\ Ready(5)
    /\ Enter(5, DOMAIN nat, <<>>, {},
             IF mainChainName \in DOMAIN nat THEN <<>>
             ELSE <<Op("new", NATTable, mainChainName, <<>>, TRUE, NoKey)>>,
             0, 0, 0)
    /\ UNCHANGED <<loadbalancers, nat, filter, now>>

\* C3 mutant: createChainForLB leaves the chain under its Creating name
createChainForLBNoRename(lb) ==
    LET chain == ChainIDString(GetChainID(lb, ChainCreating, ZeroHash))
    IN  <<Op("new", NATTable, chain, <<>>, TRUE, Key(lb))>>
        \o [n \in 1..Len(lb.Outputs) |->
               Op("append", NATTable, chain, createChainRules(lb)[n], TRUE, Key(lb))]

\* the primitive operations of createChainForLB, each ending it when it fails:
\* the new chain, its rules, then the listing, the hash and the rename
createChainForLB(lb) ==
    LET chain == ChainIDString(GetChainID(lb, ChainCreating, ZeroHash))
    IN  <<Op("new", NATTable, chain, <<>>, TRUE, Key(lb))>>
        \o [n \in 1..Len(lb.Outputs) |->
               Op("append", NATTable, chain, createChainRules(lb)[n], TRUE, Key(lb))]
        \o <<Op("rename", NATTable, chain, <<>>, TRUE, Key(lb))>>

\* C5 mutant: any Created chain of the loadbalancer counts, of any generation
existingChainAnyGeneration(chains, lb) ==
    \E chain \in chains : chain.State = ChainCreated

\* whether ensureChains finds a chain of the loadbalancer's generation
existingChain(chains, lb) ==
    \E chain \in chains : chain.State = ChainCreated /\ chain.LastUpdate = lb.LastUpdate

\* T6
ensureChains ==
    /\ Ready(6)
    /\ Enter(6, DOMAIN nat, <<>>,
             {k \in lbToChainsKeys(findChainIDs(DOMAIN nat), loadbalancers) :
                 /\ k \in DOMAIN loadbalancers
                 /\ ~existingChain(lbChains(findChainIDs(DOMAIN nat), k), loadbalancers[k])},
             <<>>, 0, 0, 0)
    /\ UNCHANGED <<loadbalancers, nat, filter, now>>

ensureChainOf(lbKey) ==
    /\ task = 6
    /\ Visit(lbKey, createChainForLB(loadbalancers[lbKey]))

\* the keys for which ensureMainChainEntries gets as far as a latest chain
mainChainEntryKeys(chainIDs) ==
    {k \in lbToChainsKeys(chainIDs, loadbalancers) :
        /\ k \in DOMAIN loadbalancers
        /\ getChainIDsWithState(lbChains(chainIDs, k), ChainCreated) # {}}

\* T7 (an error of its listing is not counted)
ensureMainChainEntries ==
    /\ Ready(7)
    /\ \/ /\ mainChainName \in DOMAIN nat
          /\ Enter(7, DOMAIN nat, ListLines(nat, mainChainName),
                   mainChainEntryKeys(findChainIDs(DOMAIN nat)), <<>>, 0, 0, 0)
       \/ /\ mainChainName \notin DOMAIN nat
          /\ Enter(7, DOMAIN nat, <<>>, {}, <<>>, 0, 1, 0)
       \/ /\ inj < MaxFail
          /\ Enter(7, DOMAIN nat, <<>>, {}, <<>>, 0, 1, 1)
    /\ UNCHANGED <<loadbalancers, nat, filter, now>>

ensureMainChainEntryOf(lbKey) ==
    /\ task = 7
    /\ \E latest \in getLatestChainID(
                        getChainIDsWithState(lbChains(findChainIDs(allChains), lbKey),
                                             ChainCreated)) :
          Visit(lbKey,
                IF rulesContainRule(rules, getRuleStringForMainChainEntryToChain(latest))
                THEN <<>>
                ELSE <<Op("append", NATTable, mainChainName,
                          getRuleStringForMainChainEntryToChain(latest), FALSE, lbKey)>>)

\* the rules of the main chain other than its "-N" line
JumpRules(rs) == SelectSeq(rs, LAMBDA r : r # <<<<"-N">>, mainChainName>>)

\* the chain ids of the jumps that parse, in the order of the rules
RECURSIVE JumpChainIDs(_)
JumpChainIDs(rs) ==
    IF rs = <<>> THEN <<>>
    ELSE (IF getChainIDForMainChainRule(Head(rs)).ok
          THEN <<getChainIDForMainChainRule(Head(rs)).id>> ELSE <<>>)
         \o JumpChainIDs(Tail(rs))

\* the jumps whose target does not parse: each is counted as an error
BrokenJumps(rs) == Len(JumpRules(rs)) - Len(JumpChainIDs(JumpRules(rs)))

removeMainChainEntryToChain(chain) ==
    Op("delete", NATTable, mainChainName, getRuleStringForMainChainEntryToChain(chain),
       FALSE, AsLoadbalancerKey(chain))

\* the first chain of the highest LastUpdate
newestChain(chains) ==
    chains[CHOOSE i \in 1..Len(chains) :
              /\ \A j \in 1..Len(chains) : chains[j].LastUpdate <= chains[i].LastUpdate
              /\ \A j \in 1..(i - 1) : chains[j].LastUpdate < chains[i].LastUpdate]

\* C1 mutant: task 8 removes every jump of a key, in the registry or not
obsoleteMainChainEntriesAll(rs, lbKey) ==
    LET chains == SelectSeq(JumpChainIDs(JumpRules(rs)),
                            LAMBDA c : AsLoadbalancerKey(c) = lbKey)
    IN  [i \in 1..Len(chains) |-> removeMainChainEntryToChain(chains[i])]

\* C7 mutant: task 8 keeps the newest jump of every key, in the registry or not
obsoleteMainChainEntriesKeepNewest(rs, lbKey) ==
    LET chains == SelectSeq(JumpChainIDs(JumpRules(rs)),
                            LAMBDA c : AsLoadbalancerKey(c) = lbKey)
        outdated == SelectSeq(chains,
                        LAMBDA c : ChainIDString(c) # ChainIDString(newestChain(chains)))
    IN  IF Len(chains) = 1 THEN <<>>
        ELSE [i \in 1..Len(outdated) |-> removeMainChainEntryToChain(outdated[i])]

\* the jumps deleteObsoleteMainChainEntries removes for one key
obsoleteMainChainEntries(rs, lbKey) ==
    LET chains == SelectSeq(JumpChainIDs(JumpRules(rs)),
                            LAMBDA c : AsLoadbalancerKey(c) = lbKey)
        outdated == SelectSeq(chains,
                        LAMBDA c : ChainIDString(c) # ChainIDString(newestChain(chains)))
    IN  IF lbKey \notin DOMAIN loadbalancers
        THEN [i \in 1..Len(chains) |-> removeMainChainEntryToChain(chains[i])]
        ELSE IF Len(chains) = 1 THEN <<>>
        ELSE [i \in 1..Len(outdated) |-> removeMainChainEntryToChain(outdated[i])]

\* T8
deleteObsoleteMainChainEntries ==
    /\ Ready(8)
    /\ \/ /\ mainChainName \in DOMAIN nat
          /\ LET rs == ListLines(nat, mainChainName)
             IN  Enter(8, DOMAIN nat, rs,
                       {k \in {AsLoadbalancerKey(c) : c \in SeqToSet(JumpChainIDs(JumpRules(rs)))} :
                           obsoleteMainChainEntries(rs, k) # <<>>},
                       <<>>, BrokenJumps(rs), 0, 0)
       \/ /\ mainChainName \notin DOMAIN nat
          /\ Enter(8, DOMAIN nat, <<>>, {}, <<>>, 1, 1, 0)
       \/ /\ inj < MaxFail
          /\ Enter(8, DOMAIN nat, <<>>, {}, <<>>, 1, 1, 1)
    /\ UNCHANGED <<loadbalancers, nat, filter, now>>

deleteObsoleteMainChainEntriesOf(lbKey) ==
    /\ task = 8
    /\ Visit(lbKey, obsoleteMainChainEntries(rules, lbKey))

\* T9
deleteObsoleteChains ==
    /\ Ready(9)
    /\ \/ /\ mainChainName \in DOMAIN nat
          /\ LET rs == ListLines(nat, mainChainName)
             IN  Enter(9, DOMAIN nat, rs,
                       {c \in findChainIDs(DOMAIN nat) :
                           ~chainIDsContainID(SeqToSet(JumpChainIDs(JumpRules(rs))), c)},
                       <<>>, BrokenJumps(rs), 0, 0)
       \/ /\ mainChainName \notin DOMAIN nat
          /\ Enter(9, DOMAIN nat, <<>>, {}, <<>>, 1, 1, 0)
       \/ /\ inj < MaxFail
          /\ Enter(9, DOMAIN nat, <<>>, {}, <<>>, 1, 1, 1)
    /\ UNCHANGED <<loadbalancers, nat, filter, now>>

deleteObsoleteChain(chainID) ==
    /\ task = 9
    /\ Visit(chainID, deleteChain(chainID))

\* the endpoints the rules of a chain DNAT to: [ok, eps]
chainDestinations(chain) ==
    LET rs == SelectSeq(ListLines(nat, chain), LAMBDA r : r # <<<<"-N">>, chain>>)
    IN  [ok |-> \A i \in 1..Len(rs) : getDestinationFromRule(rs[i]).ok,
         eps |-> {EndpointString(getDestinationFromRule(rs[i]).ep) : i \in 1..Len(rs)}]

\* C21 mutant: every forward rule with an endpoint is deleted, referenced or not
RECURSIVE obsoleteForwardEntriesAll(_, _)
obsoleteForwardEntriesAll(forwardRules, referencedEndpoints) ==
    IF forwardRules = <<>> THEN <<>>
    ELSE LET rule == stripNARules(Head(forwardRules))
             dest == getDestinationFromForwardRule(rule)
         IN  (IF rule = <<>> \/ ~dest.ok THEN <<>>
              ELSE <<Op("delete", FilterTable, forwardChainName,
                        ReplaceMask(rule, dest.ip), FALSE, NoKey)>>)
             \o obsoleteForwardEntriesAll(Tail(forwardRules), referencedEndpoints)

\* the deletes deleteObsoleteForwardChainEntries decides on, in the order of
\* the forward rules
RECURSIVE obsoleteForwardEntries(_, _)
obsoleteForwardEntries(forwardRules, referencedEndpoints) ==
    IF forwardRules = <<>> THEN <<>>
    ELSE LET rule == stripNARules(Head(forwardRules))
             dest == getDestinationFromForwardRule(rule)
         IN  (IF rule = <<>> \/ ~dest.ok \/ dest.ep \in referencedEndpoints THEN <<>>
              ELSE <<Op("delete", FilterTable, forwardChainName,
                        ReplaceMask(rule, dest.ip), FALSE, NoKey)>>)
             \o obsoleteForwardEntries(Tail(forwardRules), referencedEndpoints)

\* the forward rules no endpoint can be read from: each is counted as an error
BrokenForwardRules(forwardRules) ==
    Cardinality({i \in 1..Len(forwardRules) :
        /\ stripNARules(forwardRules[i]) # <<>>
        /\ ~getDestinationFromForwardRule(stripNARules(forwardRules[i])).ok})

\* C22 mutant: task 10 goes on with the endpoints it has gathered so far
abortedGatherGoesOn(forwardRules) == obsoleteForwardEntries(forwardRules, {})

\* the deletes task 10 decides on when it could not gather the referenced
\* endpoints: it returns before it looks at the forward rules
abortedGather(forwardRules) == <<>>

\* T10 (the listing of the forward chain may fail, and so may the listing of
\* one of the chains)
deleteObsoleteForwardChainEntries ==
    /\ Ready(10)
    /\ \/ /\ forwardChainName \in DOMAIN filter
          /\ LET forwardRules == ListLines(filter, forwardChainName)
                 chains == {ChainIDString(c) : c \in findChainIDs(DOMAIN nat)}
             IN  \/ IF \E c \in chains : c \notin DOMAIN nat
                    THEN Enter(10, DOMAIN nat, forwardRules, {},
                               abortedGather(forwardRules), 1, 1, 0)
                    ELSE IF \A c \in chains : chainDestinations(c).ok
                    THEN Enter(10, DOMAIN nat, forwardRules, {},
                               obsoleteForwardEntries(forwardRules,
                                   UNION {chainDestinations(c).eps : c \in chains}),
                               BrokenForwardRules(forwardRules), 0, 0)
                    ELSE Enter(10, DOMAIN nat, forwardRules, {},
                               abortedGather(forwardRules), 1, 0, 0)
                 \/ /\ chains # {}
                    /\ inj < MaxFail
                    /\ Enter(10, DOMAIN nat, forwardRules, {},
                             abortedGather(forwardRules), 1, 1, 1)
       \/ /\ forwardChainName \notin DOMAIN filter
          /\ Enter(10, DOMAIN nat, <<>>, {}, <<>>, 1, 1, 0)
       \/ /\ inj < MaxFail
          /\ Enter(10, DOMAIN nat, <<>>, {}, <<>>, 1, 1, 1)
    /\ UNCHANGED <<loadbalancers, nat, filter, now>>

\* ------------------------------------------------- the primitive operations
\* The running task issues the operation at the head of pend.  It fails when
\* the kernel refuses it, and it may fail for an external reason; the caller
\* counts the error and goes on with the next item or operation.
Issue(h, can, tbl, to) ==
    /\ \/ /\ can
          /\ nat' = IF h.table = NATTable THEN tbl ELSE nat
          /\ filter' = IF h.table = FilterTable THEN tbl ELSE filter
          /\ pend' = Tail(pend)
          /\ UNCHANGED <<errors, failed, inj>>
       \/ /\ ~can \/ inj < MaxFail
          /\ UNCHANGED <<nat, filter>>
          /\ pend' = IF h.abort THEN <<>> ELSE Tail(pend)
          /\ errors' = errors + 1
          /\ failed' = failed + 1
          /\ inj' = IF can THEN inj + 1 ELSE inj
    /\ lastOp' = [op |-> h.op, table |-> h.table, chain |-> h.chain, spec |-> h.spec,
                  to |-> to, ok |-> (nat' # nat \/ filter' # filter \/ (can /\ inj' = inj)),
                  had |-> h.chain \in DOMAIN Table(h.table),
                  ref |-> Referenced(Table(h.table), h.chain)]
    /\ UNCHANGED <<loadbalancers, now, task, allChains, rules, todo, events, pre, quiet,
                   changed, life, wire>>

Next1(kind) == task # 0 /\ pend # <<>> /\ pend[1].op = kind

NewChain ==
    /\ Next1("new")
    /\ LET h == pend[1]
       IN  Issue(h, CanNewChain(Table(h.table), h.chain),
                 DoNewChain(Table(h.table), h.chain), <<>>)

AppendRule ==
    /\ Next1("append")
    /\ LET h == pend[1]
       IN  Issue(h, CanAppend(Table(h.table), h.chain, h.spec),
                 DoAppend(Table(h.table), h.chain, h.spec), <<>>)

DeleteRule ==
    /\ Next1("delete")
    /\ LET h == pend[1]
       IN  Issue(h, CanDelete(Table(h.table), h.chain, h.spec),
                 DoDelete(Table(h.table), h.chain, h.spec), <<>>)

ClearChain ==
    /\ Next1("clear")
    /\ LET h == pend[1]
       IN  Issue(h, TRUE, DoClearChain(Table(h.table), h.chain), <<>>)

DeleteChain ==
    /\ Next1("deletechain")
    /\ LET h == pend[1]
       IN  Issue(h, CanDeleteChain(Table(h.table), h.chain),
                 DoDeleteChain(Table(h.table), h.chain), <<>>)

\* the end of createChainForLB: list the new chain, hash what the kernel
\* stored, rename the chain to its Created name
createdName(h) ==
    ChainIDString(GetChainID(loadbalancers[h.lb], ChainCreated,
                             calculateHashForRules(ListLines(nat, h.chain))))

RenameChain ==
    /\ Next1("rename")
    /\ LET h == pend[1]
       IN  IF h.chain \in DOMAIN nat
           THEN Issue(h, CanRenameChain(nat, h.chain, createdName(h)),
                      DoRenameChain(nat, h.chain, createdName(h)), createdName(h))
           ELSE Issue(h, FALSE, nat, <<>>)

\* sync() returns: the mutex is released
EndSyncWith(w) ==
    /\ Ready(11)
    /\ task' = 0
    /\ allChains' = {}
    /\ rules' = <<>>
    /\ lastOp' = NoOp
    /\ pre' = NoPre
    /\ quiet' = (failed = 0)
    /\ changed' = IF failed = 0 THEN {} ELSE changed
    /\ wire' = w
    /\ UNCHANGED <<loadbalancers, nat, filter, now, todo, pend, errors, failed, inj,
                   events, life>>

\* a controller without metrics
EndSync == EndSyncWith(wire)

\* ------------------------------------------------------------- environment
\* between two syncs somebody removes a rule from one of the controller's chains
Tamper(chain, i) ==
    /\ task = 0
    /\ inj < MaxFail
    /\ chain \in DOMAIN nat
    /\ TryParseChainID(chain).ok
    /\ i \in 1..Len(nat[chain])
    /\ nat' = [nat EXCEPT ![chain] = SubSeq(@, 1, i - 1) \o SubSeq(@, i + 1, Len(@))]
    /\ inj' = inj + 1
    /\ lastOp' = NoOp
    /\ quiet' = FALSE
    /\ UNCHANGED <<loadbalancers, filter, now, task, allChains, rules, todo, pend, errors,
                   failed, events, pre, changed, life, wire>>

\* the endpoint of a rule that somebody else keeps in the forward chain: its
\* address and its port begin with the text of those of the first output
NeighbourEndpoint == [IP |-> <<10, 100, 0, 10>>, Port |-> 810]

\* between two syncs somebody appends to the forward chain the rule that
\* accepts the traffic from the neighbour endpoint
AppendNeighbourRule ==
    /\ task = 0
    /\ inj < MaxFail
    /\ forwardChainName \in DOMAIN filter
    /\ filter' = DoAppend(filter, forwardChainName,
                          getSrcForwardRuleStringForEndpointAndProt(NeighbourEndpoint,
                                                                    ProtocolTCP))
    /\ inj' = inj + 1
    /\ lastOp' = NoOp
    /\ quiet' = FALSE
    /\ UNCHANGED <<loadbalancers, nat, now, task, allChains, rules, todo, pend, errors,
                   failed, events, pre, changed, life, wire>>

\* between two syncs somebody appends a rule without a destination to one of
\* the controller's chains
AppendForeignRule(chain) ==
    /\ task = 0
    /\ inj < MaxFail
    /\ chain \in DOMAIN nat
    /\ TryParseChainID(chain).ok
    /\ nat' = DoAppend(nat, chain, ForeignRules[1])
    /\ inj' = inj + 1
    /\ lastOp' = NoOp
    /\ quiet' = FALSE
    /\ UNCHANGED <<loadbalancers, filter, now, task, allChains, rules, todo, pend, errors,
                   failed, events, pre, changed, life, wire>>

\* between two syncs somebody creates a chain whose name has the controller's
\* prefix and does not parse
NewBadCRCChain ==
    /\ task = 0
    /\ inj < MaxFail
    /\ BadCRCChain \notin DOMAIN nat
    /\ nat' = [c \in DOMAIN nat \cup {BadCRCChain} |->
                  IF c = BadCRCChain THEN ForeignRules ELSE nat[c]]
    /\ inj' = inj + 1
    /\ lastOp' = NoOp
    /\ quiet' = FALSE
    /\ UNCHANGED <<loadbalancers, filter, now, task, allChains, rules, todo, pend, errors,
                   failed, events, pre, changed, life, wire>>

Next ==
    \/ \E a \in UpsertArgs : UpsertLoadbalancer(a[1], a[2])
    \/ \E k \in Inputs : DeleteLoadbalancer(k)
    \/ \E a \in OverwriteArgs : CallerOverwritesOutput(a[1], a[2], a[3])
    \/ NewController
    \/ Run
    \/ Tick
    \/ \E c \in DOMAIN nat, i \in 1..MaxOutputs : Tamper(c, i)
    \/ AppendNeighbourRule
    \/ \E c \in DOMAIN nat : AppendForeignRule(c)
    \/ NewBadCRCChain
    \/ \E n \in 1..10 : ListChainsFails(n)
    \/ deleteChainsStuckInCreation
    \/ \E c \in todo : deleteChainStuckInCreation(c)
    \/ refreshLoadbalancersWithBrokenChains
    \/ \E c \in todo : refreshLoadbalancerWithBrokenChain(c)
    \/ ensureForwardChainExists
    \/ ensureForwardChainEntries
    \/ \E k \in todo : ensureForwardChainEntriesOf(k)
    \/ ensureMainChainExists
    \/ ensureChains
    \/ \E k \in todo : ensureChainOf(k)
    \/ ensureMainChainEntries
    \/ \E k \in todo : ensureMainChainEntryOf(k)
    \/ deleteObsoleteMainChainEntries
    \/ \E k \in todo : deleteObsoleteMainChainEntriesOf(k)
    \/ deleteObsoleteChains
    \/ \E c \in todo : deleteObsoleteChain(c)
    \/ deleteObsoleteForwardChainEntries
    \/ NewChain
    \/ AppendRule
    \/ DeleteRule
    \/ ClearChain
    \/ DeleteChain
    \/ RenameChain
    \/ EndSync

Spec == Init /\ [][Next]_vars

\* shutdown: the runs in which Stop() is called, none of them with an external
\* failure (no chain is left in state Creating, task 1 has nothing to visit)
InitStop == InitWith(MaxFail)

NextStop ==
    \/ \E a \in UpsertArgs : UpsertLoadbalancer(a[1], a[2])
    \/ \E k \in Inputs : DeleteLoadbalancer(k)
    \/ Run
    \/ Stop
    \/ RunReturns
    \/ StopReturns
    \/ LoopReturns
    \/ Tick
    \/ deleteChainsStuckInCreation
    \/ refreshLoadbalancersWithBrokenChains
    \/ \E c \in todo : refreshLoadbalancerWithBrokenChain(c)
    \/ ensureForwardChainExists
    \/ ensureForwardChainEntries
    \/ \E k \in todo : ensureForwardChainEntriesOf(k)
    \/ ensureMainChainExists
    \/ ensureChains
    \/ \E k \in todo : ensureChainOf(k)
    \/ ensureMainChainEntries
    \/ \E k \in todo : ensureMainChainEntryOf(k)
    \/ deleteObsoleteMainChainEntries
    \/ \E k \in todo : deleteObsoleteMainChainEntriesOf(k)
    \/ deleteObsoleteChains
    \/ \E c \in todo : deleteObsoleteChain(c)
    \/ deleteObsoleteForwardChainEntries
    \/ NewChain
    \/ AppendRule
    \/ DeleteRule
    \/ ClearChain
    \/ DeleteChain
    \/ RenameChain
    \/ EndSync

SpecStop == InitStop /\ [][NextStop]_vars

\* convergence: the runs in which, after the registry calls and the seconds of
\* the model, the timer of loop() goes on firing; nobody else edits the tables,
\* and an operation fails for an external reason, or the process is restarted
\* in the middle of a sync, only MaxFail times
LaterSync ==
    /\ looping
    /\ Lock
    /\ events = MaxEvents
    /\ Enter(1, DOMAIN nat, <<>>,
             getChainIDsWithState(findChainIDs(DOMAIN nat), ChainCreating), <<>>, 0, 0, 0)
    /\ UNCHANGED <<loadbalancers, nat, filter, now>>

\* the tasks of sync() and the primitive operations they issue
TaskSteps ==
    \/ deleteChainsStuckInCreation
    \/ \E c \in todo : deleteChainStuckInCreation(c)
    \/ refreshLoadbalancersWithBrokenChains
    \/ \E c \in todo : refreshLoadbalancerWithBrokenChain(c)
    \/ ensureForwardChainExists
    \/ ensureForwardChainEntries
    \/ \E k \in todo : ensureForwardChainEntriesOf(k)
    \/ ensureMainChainExists
    \/ ensureChains
    \/ \E k \in todo : ensureChainOf(k)
    \/ ensureMainChainEntries
    \/ \E k \in todo : ensureMainChainEntryOf(k)
    \/ deleteObsoleteMainChainEntries
    \/ \E k \in todo : deleteObsoleteMainChainEntriesOf(k)
    \/ deleteObsoleteChains
    \/ \E c \in todo : deleteObsoleteChain(c)
    \/ deleteObsoleteForwardChainEntries
    \/ NewChain
    \/ AppendRule
    \/ DeleteRule
    \/ ClearChain
    \/ DeleteChain
    \/ RenameChain

\* the steps of loop() and sync()
SyncSteps ==
    \/ \E n \in 1..10 : ListChainsFails(n)
    \/ LaterSync
    \/ TaskSteps
    \/ EndSync

\* the registry calls of these runs: one load balancer, set, changed, emptied
LiveArgs == {a \in UpsertArgs : a[1] = In1}

NextLive ==
    \/ \E a \in LiveArgs : UpsertLoadbalancer(a[1], a[2])
    \/ NewController
    \/ Run
    \/ Tick
    \/ SyncSteps

\* main() calls Run(), and the timer of loop() fires when its interval has
\* passed and the mutex is free
SpecLive ==
    Init /\ [][NextLive]_vars /\ WF_vars(Run) /\ WF_vars(LaterSync) /\ WF_vars(EndSync)

\* ------------------------------------ a kernel left by an earlier instance
\* a second later than any the clock of the model shows
FutureTime == MaxTime + 1

\* a record of the first key as an earlier instance held it
LeftLB(gen, n) == Loadbalancer(gen, In1, [i \in 1..n |-> Output(i)])

\* the rules of the chain createChainForLB built for it, as the kernel keeps them
LeftRules(lb) == [n \in 1..Len(lb.Outputs) |-> Canonical(createChainRules(lb)[n])]

\* the id of that chain: while it is built, and after the rename
LeftID(lb, state) ==
    LET chain == ChainIDString(GetChainID(lb, ChainCreating, ZeroHash))
    IN  IF state = ChainCreating THEN GetChainID(lb, ChainCreating, ZeroHash)
        ELSE GetChainID(lb, ChainCreated,
                        calculateHashForRules(ListLines([c \in {chain} |-> LeftRules(lb)],
                                                        chain)))

Left(gen, n, state) == [lb |-> LeftLB(gen, n), state |-> state, pad |-> "="]

\* the same chain under the name somebody else gave it, spare bits set
LeftSpare(gen, n, state) == [Left(gen, n, state) EXCEPT !.pad = SparePad]

LeftName(c) ==
    LET name == ChainIDString(LeftID(c.lb, c.state))
    IN  [name EXCEPT ![Len(name)] = c.pad]

\* what the earlier instance left: its chains, and the chains its main chain
\* jumps to, in the order of the jumps
Leftovers ==
    {[chains |-> {Left(1, 1, ChainCreated)},
      jumps |-> <<Left(1, 1, ChainCreated), Left(1, 1, ChainCreated)>>],
     [chains |-> {Left(1, 1, ChainCreated), Left(1, 2, ChainCreated)},
      jumps |-> <<Left(1, 1, ChainCreated), Left(1, 2, ChainCreated)>>],
     [chains |-> {Left(1, 2, ChainCreated), Left(FutureTime, 1, ChainCreated)},
      jumps |-> <<Left(FutureTime, 1, ChainCreated), Left(1, 2, ChainCreated)>>],
     [chains |-> {Left(FutureTime, 1, ChainCreated)},
      jumps |-> <<Left(FutureTime, 1, ChainCreated)>>],
     [chains |-> {Left(1, 1, ChainCreated), Left(1, 2, ChainCreating)},
      jumps |-> <<Left(1, 1, ChainCreated)>>],
     [chains |-> {Left(1, 2, ChainCreated)}, jumps |-> <<>>],
     [chains |-> {LeftSpare(1, 1, ChainCreated)}, jumps |-> <<>>]}

\* the nat table with these leftovers
LeftNat(left) ==
    LET names == {LeftName(c) : c \in left.chains}
    IN  [c \in DOMAIN InitNat \cup {mainChainName} \cup names |->
            IF c \in DOMAIN InitNat THEN InitNat[c]
            ELSE IF c = mainChainName
            THEN [i \in 1..Len(left.jumps) |->
                     Canonical(getRuleStringForMainChainEntryToChain(
                                   LeftID(left.jumps[i].lb, left.jumps[i].state)))]
            ELSE LeftRules((CHOOSE x \in left.chains : LeftName(x) = c).lb)]

\* NewController on such a kernel; no operation fails for an external reason
InitAdopt == \E left \in Leftovers : InitOn(MaxFail, LeftNat(left), NoWire)

NextAdopt ==
    \/ \E a \in LiveArgs : UpsertLoadbalancer(a[1], a[2])
    \/ Run
    \/ Tick
    \/ TaskSteps
    \/ EndSync

SpecAdopt == InitAdopt /\ [][NextAdopt]_vars

\* ------------------------------------------------------------- the gauges
\* Metrics.Init(): the gauge of the load balancers and the gauge vector of
\* healthy endpoints, which has a value for the labels it was given so far
NewMetrics == [NoWire EXCEPT !.op = "metrics",
                             !.id = [LBHealthy |-> 0, LBHealthyEndpoints |-> <<>>]]

updateLBMetrics ==
    [wire EXCEPT
        !.id = [LBHealthy |-> Cardinality(DOMAIN loadbalancers),
                LBHealthyEndpoints |->
                    [key \in DOMAIN wire.id.LBHealthyEndpoints \cup DOMAIN loadbalancers |->
                        IF key \in DOMAIN loadbalancers
                        THEN Len(loadbalancers[key].Outputs)
                        ELSE wire.id.LBHealthyEndpoints[key]]]]

\* the end of sync() of a controller that was given metrics
EndSyncMetrics == EndSyncWith(updateLBMetrics)

NextMetrics ==
    \/ \E a \in LiveArgs : UpsertLoadbalancer(a[1], a[2])
    \/ \E k \in Inputs : DeleteLoadbalancer(k)
    \/ Run
    \/ Tick
    \/ TaskSteps
    \/ EndSyncMetrics

\* the controller is started with metrics on what an earlier instance left
InitMetrics == \E left \in Leftovers : InitOn(MaxFail, LeftNat(left), NewMetrics)

SpecMetrics == InitMetrics /\ [][NextMetrics]_vars

\* ----------------------------------------------------- the name under test
\* everything but the name under test
controller ==
    <<loadbalancers, nat, filter, now, task, allChains, rules, todo, pend,
      errors, failed, inj, events, lastOp, pre, quiet, changed, life>>

\* NewChainID(protocol, ip, port, lastUpdate, state, contentHash)
CallNewChainID(protocol, ip, port, lastUpdate, state, contentHash) ==
    /\ wire.op = "none"
    /\ wire' = [NoWire EXCEPT !.op = "NewChainID",
                              !.id = NewChainIDWire(protocol, ip, port, lastUpdate, state,
                                                    contentHash)]
    /\ UNCHANGED controller

\* id.String()
CallString ==
    /\ wire.op = "NewChainID"
    /\ wire' = [wire EXCEPT !.op = "String", !.from = "String", !.buf = chainIDBuf(wire.id),
                            !.name = ChainIDStringWire(wire.id)]
    /\ UNCHANGED controller

\* byte i of the payload is overwritten with b and the payload encoded again
OverwriteByte(i, b) ==
    /\ wire.op = "String"
    /\ wire.buf[i] # b
    /\ wire' = [wire EXCEPT !.op = "overwritten", !.from = "overwritten", !.buf[i] = b,
                            !.name = chainIDPrefixWire
                                        \o EncodeToString([wire.buf EXCEPT ![i] = b])]
    /\ UNCHANGED controller

\* some other name is found in the table
ForeignName(name) ==
    /\ wire.op = "String"
    /\ wire' = [wire EXCEPT !.op = "foreign", !.from = "foreign", !.name = name]
    /\ UNCHANGED controller

\* TryParseChainID(name)
CallTryParseChainID ==
    /\ wire.op \in {"String", "overwritten", "foreign"}
    /\ wire' = [wire EXCEPT !.op = "TryParseChainID", !.res = TryParseChainIDWire(wire.name)]
    /\ UNCHANGED controller

NextWire ==
    \/ \E protocol \in WireProtocols, ip \in WireIPs, port \in WirePorts,
          lastUpdate \in WireTimes, state \in WireStates, contentHash \in WireHashes :
          CallNewChainID(protocol, ip, port, lastUpdate, state, contentHash)
    \/ CallString
    \/ \E i \in 1..8, b \in WireBytes : OverwriteByte(i, b)
    \/ \E name \in (IF wire.op = "String" THEN ForeignNames(wire.buf) ELSE {}) :
          ForeignName(name)
    \/ CallTryParseChainID

SpecWire == Init /\ [][NextWire]_vars

\* --------------------------------------------------------- endpoint ranges
\* net: the first twelve bytes of an IPv4 address in its 16-byte form
v4InV6Prefix == <<0, 0, 0, 0, 0, 0, 0, 0, 0, 0, 255, 255>>

\* net.IPv4(a, b, c, d): the 16-byte form
IPv4(a, b, c, d) == v4InV6Prefix \o <<a, b, c, d>>

\* ip.To4(): the 4-byte form (<<>>: nil)
To4(ip) ==
    IF Len(ip) = 4 THEN ip
    ELSE IF Len(ip) = 16 /\ SubSeq(ip, 1, 12) = v4InV6Prefix THEN SubSeq(ip, 13, 16)
    ELSE <<>>

\* ip.Equal(x): the 4-byte and the 16-byte form of an address are equal
IPEqual(ip, x) == To4(ip) # <<>> /\ To4(ip) = To4(x)

RECURSIVE Split(_, _)
\* strings.Split(s, sep) for a separator of one character
Split(s, sep) ==
    IF \A i \in 1..Len(s) : s[i] # sep THEN <<s>>
    ELSE LET i == CHOOSE i \in 1..Len(s) : s[i] = sep /\ \A j \in 1..(i - 1) : s[j] # sep
         IN  <<SubSeq(s, 1, i - 1)>> \o Split(SubSeq(s, i + 1, Len(s)), sep)

\* one decimal field of a dotted address: up to three digits, no leading
\* zero, at most 255 (-1: rejected)
ParseOctet(f) ==
    IF Len(f) = 0 \/ Len(f) > 3 \/ (Len(f) > 1 /\ f[1] = "0") \/ Atoi(f) > 255 THEN -1
    ELSE Atoi(f)

\* net.ParseIP(s) of a text without colons: the 16-byte form (<<>>: nil)
ParseIP(s) ==
    LET f == Split(s, ".")
    IN  IF Len(f) = 4 /\ \A i \in 1..4 : ParseOctet(f[i]) >= 0
        THEN IPv4(ParseOctet(f[1]), ParseOctet(f[2]), ParseOctet(f[3]), ParseOctet(f[4]))
        ELSE <<>>

\* uint16(port)
AsUint16(port) == port % 65536

\* what TryParseEndpoints returns: the endpoints, or nil and an error
Parsed2(endpoints, err) == [endpoints |-> endpoints, err |-> err]

\* C25 mutant: the loop over the range starts at min
rangeTailFromMin(ip, port, min, max) ==
    [i \in 1..(max - min + 1) |->
        [IP |-> IPv4(ip[1], ip[2], ip[3], min + i - 1), Port |-> AsUint16(port)]]

\* for i := min + 1; i <= max; i++: the endpoints after the first one
rangeTail(ip, port, min, max) ==
    [i \in 1..(max - min) |->
        [IP |-> IPv4(ip[1], ip[2], ip[3], min + i), Port |-> AsUint16(port)]]

\* one pass of the loop of TryParseEndpoints over the part p
parsePart(p) ==
    LET ipPortParts == Split(p, ":")
        port == Atoi(ipPortParts[2])
        rangeParts == Split(ipPortParts[1], "-")
        ip == To4(ParseIP(rangeParts[1]))
        first == <<[IP |-> ip, Port |-> AsUint16(port)]>>
        min == ip[4]
        max == Atoi(rangeParts[2])
    IN  IF Len(ipPortParts) # 2 THEN Parsed2(<<>>, "expected ip:port or ip-max:port")
        ELSE IF port < 0 THEN Parsed2(<<>>, "couldn't parse port")
        ELSE IF Len(rangeParts) > 2 THEN Parsed2(<<>>, "expected ip or ip range")
        ELSE IF ip = <<>> THEN Parsed2(<<>>, "couldn't parse as ip")
        ELSE IF Len(rangeParts) # 2 THEN Parsed2(first, "")
        ELSE IF max < 0 THEN Parsed2(<<>>, "couldn't parse max part of ip range")
        ELSE IF min > max THEN Parsed2(<<>>, "lower address is bigger than upper")
        ELSE IF min = max THEN Parsed2(first, "")
        ELSE IF max > 255 THEN Parsed2(<<>>, "invalid maximum ip for range")
        ELSE Parsed2(first \o rangeTail(ip, port, min, max), "")

RECURSIVE parseParts(_, _)
\* the loop of TryParseEndpoints: the first error ends it
parseParts(parts, endpoints) ==
    IF parts = <<>> THEN Parsed2(endpoints, "")
    ELSE IF parsePart(parts[1]).err # "" THEN parsePart(parts[1])
    ELSE parseParts(Tail(parts), endpoints \o parsePart(parts[1]).endpoints)

TryParseEndpoints(ipStr) == parseParts(Split(ipStr, ","), <<>>)

\* the texts tried: A.B.C.X-Y:P and A.B.C.X:P, and a list of two of them
RangeNets == {<<192, 168, 0>>, <<10, 0, 7>>}
RangeMins == {0, 5, 9, 254, 255, 300}
RangeMaxs == {<<>>, <<"0">>, <<"3">>, <<"5">>, <<"9">>, <<"0", "9">>, <<"2", "5", "5">>,
              <<"2", "5", "6">>, <<"3", "0", "0">>, <<"x">>}
RangePorts == {80, 65535}

\* the text A.B.C.X-Y:P
RangeString(net, x, y, port) ==
    Itoa(net[1]) \o <<".">> \o Itoa(net[2]) \o <<".">> \o Itoa(net[3]) \o <<".">> \o Itoa(x)
        \o <<"-">> \o y \o <<":">> \o Itoa(port)

\* the text A.B.C.X:P
SingleString(net, x, port) == IPString(net \o <<x>>) \o <<":">> \o Itoa(port)

\* TryParseEndpoints("A.B.C.X-Y:P")
CallTryParseEndpoints(net, x, y, port) ==
    /\ wire.op = "none"
    /\ wire' = [NoWire EXCEPT !.op = "TryParseEndpoints", !.from = "range",
                              !.id = [net |-> net, x |-> x, y |-> y, port |-> port],
                              !.name = RangeString(net, x, y, port),
                              !.res = TryParseEndpoints(RangeString(net, x, y, port))]
    /\ UNCHANGED controller

\* TryParseEndpoints("A.B.C.X:P,A.B.C.X-Y:P")
CallTryParseEndpointsList(net, x, y, port) ==
    /\ wire.op = "none"
    /\ wire' = [NoWire EXCEPT !.op = "TryParseEndpoints", !.from = "list",
                              !.id = [net |-> net, x |-> x, y |-> y, port |-> port],
                              !.name = SingleString(net, x, port) \o <<",">>
                                          \o RangeString(net, x, y, port),
                              !.res = TryParseEndpoints(SingleString(net, x, port) \o <<",">>
                                          \o RangeString(net, x, y, port))]
    /\ UNCHANGED controller

NextRange ==
    \/ \E net \in RangeNets, x \in RangeMins, y \in RangeMaxs, port \in RangePorts :
          CallTryParseEndpoints(net, x, y, port)
    \/ \E net \in RangeNets, x \in {5}, y \in RangeMaxs, port \in {80} :
          CallTryParseEndpointsList(net, x, y, port)

SpecRange == Init /\ [][NextRange]_vars

\* ------------------------------------------------------------ health checks
\* time.Second, with a quarter of a second as the unit of a time.Duration
defaultRetention == 4

\* (rand.Float64() / 2) * float64(time.Second): at least 0, less than half a second
Jitters == 0..((defaultRetention \div 2) - 1)

\* the maxRetention NewHealthCheck is called with: 2 s, 3.5 s, 5 s
MaxRetentions == {2 * defaultRetention, 14, 5 * defaultRetention}

\* NewHealthCheck(ip, port, provider, maxRetention, maxResponseTime); before is
\* the retention the last CheckHealth found, sick that no call reported healthy
NewHealthCheckValue(maxRetention) ==
    [NoWire EXCEPT !.op = "HealthCheck",
                   !.id = [Healthy |-> FALSE, Retention |-> defaultRetention,
                           MaxRetention |-> maxRetention],
                   !.res = [calls |-> 0, before |-> 0, sick |-> TRUE]]

NewHealthCheck(maxRetention) ==
    /\ wire.op = "none"
    /\ wire' = NewHealthCheckValue(maxRetention)
    /\ UNCHANGED controller

\* C27 mutant: a healthy check adds to the retention as an unhealthy one does
RetentionAdded(h, healthy, retention) ==
    IF healthy \/ h.Retention < h.MaxRetention THEN h.Retention + retention
    ELSE h.Retention

\* h.Retention after CheckHealth, retention being the base interval and its
\* jitter
Retention(h, healthy, retention) ==
    IF healthy THEN retention
    ELSE IF h.Retention < h.MaxRetention THEN h.Retention + retention
    ELSE h.Retention

\* h.CheckHealth() with a provider reporting healthy, and the jitter drawn
CheckHealth(healthy, jitter) ==
    /\ wire.op = "HealthCheck"
    /\ wire' = [wire EXCEPT !.id.Healthy = healthy,
                            !.id.Retention = Retention(wire.id, healthy,
                                                       defaultRetention + jitter),
                            !.res = [calls |-> 1, before |-> wire.id.Retention,
                                     sick |-> wire.res.sick /\ ~healthy]]
    /\ UNCHANGED controller

NextHealth ==
    \/ \E maxRetention \in MaxRetentions : NewHealthCheck(maxRetention)
    \/ \E healthy \in BOOLEAN, jitter \in Jitters : CheckHealth(healthy, jitter)

SpecHealth == Init /\ [][NextHealth]_vars

\* ----------------------------------------------------------- health feed
\* main(): one load balancer with its outputs, for each output a Monitor
\* goroutine and an aggregator goroutine, the goroutine that passes the stop
\* on, the goroutine of mergeHealthFeeds and the updater.  The channels have
\* no buffer: a send and its receive are one step.
FeedOuts == 1..MaxOutputs

NoStatus == [e |-> 0, Healthy |-> FALSE, DidChange |-> FALSE]

\* NewLoadbalancer(prot, in, outs...) and setupHealthChecks: the record main
\* keeps lists every output; no probe has been made
setupHealthChecksValue ==
    [NoWire EXCEPT
        !.op = "feed",
        !.id = [Outputs |-> [i \in FeedOuts |-> Output(i)],
                Healthy |-> [e \in FeedOuts |-> FALSE],
                LastCheckIsZero |-> [e \in FeedOuts |-> TRUE]],
        !.res = [monitor |-> [e \in FeedOuts |-> "select"],
                 status |-> [e \in FeedOuts |-> NoStatus],
                 aggregator |-> [e \in FeedOuts |-> "select"],
                 received |-> [e \in FeedOuts |-> NoStatus],
                 merge |-> NoStatus,
                 stopChan |-> FALSE,
                 stopper |-> 0,
                 last |-> [e \in FeedOuts |-> "none"]]]

setupHealthChecks ==
    /\ wire.op = "none"
    /\ wire' = setupHealthChecksValue
    /\ UNCHANGED controller

\* Monitor, the select at the top of its loop: the stop signal when the
\* aggregator is sending it (the monitor closes its channel and returns, the
\* aggregator closes the inner channel and returns), the default otherwise
MonitorSelect(e) ==
    /\ wire.op = "feed"
    /\ wire.res.monitor[e] = "select"
    /\ wire' = IF wire.res.aggregator[e] = "stopping"
               THEN [wire EXCEPT !.res.monitor[e] = "returned",
                                 !.res.aggregator[e] = "returned"]
               ELSE [wire EXCEPT !.res.monitor[e] = "check"]
    /\ UNCHANGED controller

\* Monitor: isFirst, before, h.CheckHealth(), after
MonitorCheck(e, healthy) ==
    /\ wire.op = "feed"
    /\ wire.res.monitor[e] = "check"
    /\ wire' = [wire EXCEPT
                   !.id.Healthy[e] = healthy,
                   !.id.LastCheckIsZero[e] = FALSE,
                   !.res.status[e] =
                       [e |-> e, Healthy |-> healthy,
                        DidChange |-> wire.id.LastCheckIsZero[e]
                                          \/ healthy # wire.id.Healthy[e]],
                   !.res.monitor[e] = "send"]
    /\ UNCHANGED controller

\* notificationChan <- status, received by the select of the aggregator; the
\* monitor sleeps and goes back to its select
MonitorSend(e) ==
    /\ wire.op = "feed"
    /\ wire.res.monitor[e] = "send"
    /\ wire.res.aggregator[e] = "select"
    /\ wire' = [wire EXCEPT !.res.monitor[e] = "select", !.res.aggregator[e] = "feed",
                            !.res.received[e] = wire.res.status[e],
                            !.res.status[e] = NoStatus]
    /\ UNCHANGED controller

\* healthFeed <- status, received by the goroutine of mergeHealthFeeds
AggregatorFeed(e) ==
    /\ wire.op = "feed"
    /\ wire.res.aggregator[e] = "feed"
    /\ wire.res.merge = NoStatus
    /\ wire' = [wire EXCEPT !.res.aggregator[e] = "select",
                            !.res.merge = wire.res.received[e],
                            !.res.received[e] = NoStatus]
    /\ UNCHANGED controller

\* main closes the stop channel setupHealthChecks returned
CloseStopChan ==
    /\ wire.op = "feed"
    /\ ~wire.res.stopChan
    /\ wire' = [wire EXCEPT !.res.stopChan = TRUE]
    /\ UNCHANGED controller

\* the goroutine waiting for the stop channel wakes up
StopperWakes ==
    /\ wire.op = "feed"
    /\ wire.res.stopChan
    /\ wire.res.stopper = 0
    /\ wire' = [wire EXCEPT !.res.stopper = 1]
    /\ UNCHANGED controller

\* s <- struct{}{} for the next aggregator, received by its select, and
\* close(s); the aggregator goes on to send on the inner channel
AggregatorStop(e) ==
    /\ wire.op = "feed"
    /\ wire.res.stopper = e
    /\ wire.res.aggregator[e] = "select"
    /\ wire' = [wire EXCEPT !.res.stopper = e + 1, !.res.aggregator[e] = "stopping"]
    /\ UNCHANGED controller

RECURSIVE EndpointsContain(_, _)
EndpointsContain(endpoints, endpoint) ==
    endpoints # <<>> /\ (Head(endpoints) = endpoint \/ EndpointsContain(Tail(endpoints), endpoint))

EndpointsAppendUnique(endpoints, endpoint) ==
    IF EndpointsContain(endpoints, endpoint) THEN endpoints ELSE Append(endpoints, endpoint)

EndpointsRemove(endpoints, endpoint) == SelectSeq(endpoints, LAMBDA e : e # endpoint)

\* the updater receives a status from the merged feed: on DidChange it appends
\* or removes the endpoint and calls ctrl.UpsertLoadbalancer(lb)
UpdaterOutputs(status) ==
    IF ~status.DidChange THEN wire.id.Outputs
    ELSE IF status.Healthy THEN EndpointsAppendUnique(wire.id.Outputs, Output(status.e))
    ELSE EndpointsRemove(wire.id.Outputs, Output(status.e))

Updater ==
    /\ wire.op = "feed"
    /\ wire.res.merge # NoStatus
    /\ LET status == wire.res.merge
       IN  /\ wire' = [wire EXCEPT
                          !.id.Outputs = UpdaterOutputs(status),
                          !.res.merge = NoStatus,
                          !.res.last[status.e] = IF status.Healthy THEN "healthy"
                                                 ELSE "unhealthy"]
           /\ loadbalancers' = IF status.DidChange
                               THEN upserted(In1, UpdaterOutputs(status))
                               ELSE loadbalancers
    /\ UNCHANGED <<nat, filter, now, task, allChains, rules, todo, pend,
                   errors, failed, inj, events, lastOp, pre, quiet, changed, life>>

NextFeed ==
    \/ setupHealthChecks
    \/ \E e \in FeedOuts : MonitorSelect(e)
    \/ \E e \in FeedOuts, healthy \in BOOLEAN : MonitorCheck(e, healthy)
    \/ \E e \in FeedOuts : MonitorSend(e)
    \/ \E e \in FeedOuts : AggregatorFeed(e)
    \/ \E e \in FeedOuts : AggregatorStop(e)
    \/ CloseStopChan
    \/ StopperWakes
    \/ Updater

SpecFeed == Init /\ [][NextFeed]_vars

\* every goroutine that can take a step takes one in the end
SpecFeedLive ==
    /\ SpecFeed
    /\ \A e \in FeedOuts :
          /\ WF_vars(MonitorSelect(e))
          /\ WF_vars(\E healthy \in BOOLEAN : MonitorCheck(e, healthy))
          /\ WF_vars(MonitorSend(e))
          /\ WF_vars(AggregatorFeed(e))
          /\ WF_vars(AggregatorStop(e))
    /\ WF_vars(StopperWakes)
    /\ WF_vars(Updater)

\* ------------------------------------------------------------ observations
\* what an observer of the kernel tables sees
IsLBChain(c) == Len(c) > 0 /\ c[1] = chainIDPrefix

LBChains(tbl) == {c \in DOMAIN tbl : IsLBChain(c)}

KeyOf(c) == AsLoadbalancerKey(TryParseChainID(c).id)

ChainsOf(tbl, k) == {c \in LBChains(tbl) : TryParseChainID(c).ok /\ KeyOf(c) = k}

IsCreated(c) == TryParseChainID(c).ok /\ TryParseChainID(c).id.State = ChainCreated

GenerationOf(c) == TryParseChainID(c).id.LastUpdate

\* the targets of the rules of the main chain, in their order
JumpTargets(tbl) ==
    IF mainChainName \in DOMAIN tbl
    THEN [i \in 1..Len(tbl[mainChainName]) |-> ArgOf(tbl[mainChainName][i], "-j")]
    ELSE <<>>

\* the positions of the jumps of a key in the main chain
JumpsOf(tbl, k) ==
    {i \in 1..Len(JumpTargets(tbl)) :
        /\ TryParseChainID(JumpTargets(tbl)[i]).ok
        /\ KeyOf(JumpTargets(tbl)[i]) = k}

\* the destinations of the rules of a chain, in their order
DestinationsOf(tbl, c) == [i \in 1..Len(tbl[c]) |-> ArgOf(tbl[c][i], "--to-destination")]

OutputStrings(lb) == {EndpointString(lb.Outputs[i]) : i \in 1..Len(lb.Outputs)}

\* the hash in a chain's name is the hash of its rules
HashMatches(tbl, c) ==
    calculateHashForRules(ListLines(tbl, c)) = TryParseChainID(c).id.ContentHash

\* sync() has run its ten tasks
SyncDone == task = 10 /\ todo = {} /\ pend = <<>>

CleanSyncDone == SyncDone /\ failed = 0

\* the key had, when the sync began, a jump to an existing Created chain
HadWorkingJump(k) ==
    \E i \in JumpsOf(pre.nat, k) :
        /\ IsCreated(JumpTargets(pre.nat)[i])
        /\ JumpTargets(pre.nat)[i] \in DOMAIN pre.nat

\* ------------------------------------------------------------------ claims
\* C1: during a sync, in every state between two primitive operations (also
\* after failed ones), every loadbalancer of the registry that had a jump to
\* an existing Created chain when the sync began still has a jump whose
\* target exists in the nat table; and a chain is flushed or deleted only
\* while no jump of the main chain references it.
C1_NoRuleWindow ==
    task # 0 =>
        /\ \A k \in DOMAIN loadbalancers :
              HadWorkingJump(k) =>
                  \E i \in JumpsOf(nat, k) : JumpTargets(nat)[i] \in DOMAIN nat
        /\ (lastOp.op \in {"clear", "deletechain"} /\ IsLBChain(lastOp.chain))
              => ~lastOp.ref

\* C1 witness: task 8 has just deleted the older jump of a loadbalancer that
\* is in the registry and had a working jump when the sync began
C1_Witness ==
    /\ task = 8
    /\ lastOp.op = "delete"
    /\ lastOp.ok
    /\ TryParseChainID(ArgOf(lastOp.spec, "-j")).ok
    /\ KeyOf(ArgOf(lastOp.spec, "-j")) \in DOMAIN loadbalancers
    /\ HadWorkingJump(KeyOf(ArgOf(lastOp.spec, "-j")))

\* C2: a sync that follows a sync without primitive failure, with registry
\* and tables untouched in between, issues no mutating primitive operation,
\* changes no generation and leaves the nat and filter tables as they were
\* (stated for runs without driver failure, restart or foreign edit).
C2_Idempotent ==
    (task # 0 /\ quiet /\ inj = 0) =>
        /\ lastOp.op = "none"
        /\ nat = pre.nat
        /\ filter = pre.filter
        /\ loadbalancers = pre.lbs

\* C3: after one sync without primitive failure that began on a nat table
\* without LB$- chains, every loadbalancer of the registry has exactly one
\* LB$- chain, Created and of the loadbalancer's generation, and exactly one
\* jump, to that chain; there is no other LB$- chain and no other jump.
C3_FreshSync ==
    (CleanSyncDone /\ LBChains(pre.nat) = {}) =>
        /\ \A k \in DOMAIN loadbalancers :
              \E c \in DOMAIN nat :
                  /\ ChainsOf(nat, k) = {c}
                  /\ IsCreated(c)
                  /\ GenerationOf(c) = loadbalancers[k].LastUpdate
                  /\ Cardinality(JumpsOf(nat, k)) = 1
                  /\ \A i \in JumpsOf(nat, k) : JumpTargets(nat)[i] = c
        /\ \A c \in LBChains(nat) : \E k \in DOMAIN loadbalancers : c \in ChainsOf(nat, k)
        /\ \A i \in 1..Len(JumpTargets(nat)) :
              \E k \in DOMAIN loadbalancers : i \in JumpsOf(nat, k)

\* C3 witness: such a sync has ended with two loadbalancers in the registry
C3_Witness ==
    /\ CleanSyncDone
    /\ LBChains(pre.nat) = {}
    /\ Cardinality(DOMAIN loadbalancers) = 2
    /\ Cardinality(LBChains(nat)) = 2

\* the chain createChainForLB has just filled, and its loadbalancer
FilledChain == IF lastOp.ok THEN lastOp.to ELSE lastOp.chain

FilledLB == loadbalancers[KeyOf(lastOp.chain)]

OldGenerationChains(k) ==
    {c \in ChainsOf(pre.nat, k) :
        /\ IsCreated(c)
        /\ \E i \in JumpsOf(pre.nat, k) : JumpTargets(pre.nat)[i] = c
        /\ k \in DOMAIN pre.lbs
        /\ GenerationOf(c) < pre.lbs[k].LastUpdate}

\* C5: when the registry holds for a loadbalancer a record of a strictly
\* higher generation than a Created chain that has a jump, one sync without
\* primitive failure removes the old chain and its jump and leaves exactly
\* one chain, Created, of the record's generation, whose DNAT destinations
\* are the record's outputs, as the target of the only jump of the key.
C5_GenerationReplaced ==
    CleanSyncDone =>
        \A k \in DOMAIN loadbalancers :
            OldGenerationChains(k) # {} =>
                /\ \A c \in OldGenerationChains(k) :
                      /\ c \notin DOMAIN nat
                      /\ \A i \in JumpsOf(nat, k) : JumpTargets(nat)[i] # c
                /\ \E c \in DOMAIN nat :
                      /\ ChainsOf(nat, k) = {c}
                      /\ IsCreated(c)
                      /\ GenerationOf(c) = loadbalancers[k].LastUpdate
                      /\ Len(nat[c]) = Len(loadbalancers[k].Outputs)
                      /\ {DestinationsOf(nat, c)[i] : i \in 1..Len(nat[c])}
                            = OutputStrings(loadbalancers[k])
                      /\ Cardinality(JumpsOf(nat, k)) = 1
                      /\ \A i \in JumpsOf(nat, k) : JumpTargets(nat)[i] = c

\* C5 witness: such a sync has ended for a key whose record changed its outputs
C5_Witness ==
    /\ CleanSyncDone
    /\ \E k \in DOMAIN loadbalancers :
          /\ OldGenerationChains(k) # {}
          /\ \E c \in OldGenerationChains(k) :
                {DestinationsOf(pre.nat, c)[i] : i \in 1..Len(pre.nat[c])}
                    # OutputStrings(loadbalancers[k])

\* the Created chains of a key whose rules, when the sync began, did not have
\* the hash their name carries
TamperedChains(k) ==
    {c \in ChainsOf(pre.nat, k) : IsCreated(c) /\ ~HashMatches(pre.nat, c)}

\* C6: when a sync begins with a Created chain of a registry loadbalancer
\* whose rules do not have the hash in its name, the loadbalancer's generation
\* becomes now and, the sync having no primitive failure, at its end a
\* replacement Created chain whose hash matches its rules is the only jump
\* target of the loadbalancer and the tampered chain and its jump are gone.
C6_SelfHealing ==
    CleanSyncDone =>
        \A k \in DOMAIN pre.lbs : \A c \in TamperedChains(k) :
            /\ loadbalancers[k].LastUpdate = now
            /\ c \notin DOMAIN nat
            /\ JumpsOf(nat, k) # {}
            /\ \E r \in ChainsOf(nat, k) :
                  /\ r # c
                  /\ IsCreated(r)
                  /\ HashMatches(nat, r)
                  /\ \A i \in JumpsOf(nat, k) : JumpTargets(nat)[i] = r

\* the keys that have chains or jumps in the kernel and no registry entry
Unregistered(lbs, tbl) ==
    {k \in Inputs \ DOMAIN lbs : ChainsOf(tbl, k) # {} \/ JumpsOf(tbl, k) # {}}

\* C7: after one sync without primitive failure, a key that had LB$- chains
\* or jumps in the kernel and no entry in the registry has no jump in the
\* main chain and no LB$- chain in the nat table.
C7_Cleanup ==
    CleanSyncDone =>
        \A k \in Unregistered(pre.lbs, pre.nat) :
            ChainsOf(nat, k) = {} /\ JumpsOf(nat, k) = {}

\* C7 witness: such a sync has ended for a key that had a chain and a jump
C7_Witness ==
    /\ CleanSyncDone
    /\ \E k \in Unregistered(pre.lbs, pre.nat) :
          ChainsOf(pre.nat, k) # {} /\ JumpsOf(pre.nat, k) # {}

\* the registry loadbalancer had, when the sync began, nothing to be done for
\* it: one chain, Created, of its generation, intact, and one jump, to it
Settled(k) ==
    /\ k \in DOMAIN pre.lbs
    /\ \E c \in DOMAIN pre.nat :
          /\ ChainsOf(pre.nat, k) = {c}
          /\ IsCreated(c)
          /\ GenerationOf(c) = pre.lbs[k].LastUpdate
          /\ HashMatches(pre.nat, c)
          /\ Cardinality(JumpsOf(pre.nat, k)) = 1
          /\ \A i \in JumpsOf(pre.nat, k) : JumpTargets(pre.nat)[i] = c

\* the rules of the main chain that jump to a chain of the key
JumpRulesOf(tbl, k) ==
    IF mainChainName \in DOMAIN tbl
    THEN SelectSeq(tbl[mainChainName],
                   LAMBDA r : /\ TryParseChainID(ArgOf(r, "-j")).ok
                              /\ KeyOf(ArgOf(r, "-j")) = k)
    ELSE <<>>

NamesKey(c, k) == IsLBChain(c) /\ TryParseChainID(c).ok /\ KeyOf(c) = k

C9_MainChain ==
    /\ (task # 0 /\ pre.lbs = <<>> /\ mainChainName \notin DOMAIN pre.nat) =>
          /\ DOMAIN nat \ DOMAIN pre.nat \subseteq {mainChainName}
          /\ mainChainName \in DOMAIN nat => nat[mainChainName] = <<>>
          /\ CleanSyncDone => mainChainName \in DOMAIN nat
    /\ (/\ lastOp.op = "new"
        /\ \/ lastOp.table = NATTable /\ lastOp.chain = mainChainName
           \/ lastOp.table = FilterTable /\ lastOp.chain = forwardChainName)
          => ~lastOp.had

\* C9 witness: the first sync of a controller with an empty registry has ended
C9_Witness ==
    /\ CleanSyncDone
    /\ pre.lbs = <<>>
    /\ mainChainName \notin DOMAIN pre.nat
    /\ mainChainName \in DOMAIN nat

\* C10: after the first sync without primitive failure that follows an
\* UpsertLoadbalancer changing the outputs of a loadbalancer of the registry,
\* the loadbalancer's jump targets a Created chain whose DNAT destinations
\* are the outputs the call stored (stated for runs without driver failure,
\* restart or foreign edit).
C10_UpsertReplaces ==
    (CleanSyncDone /\ inj = 0) =>
        \A k \in changed :
            /\ k \in DOMAIN loadbalancers
            /\ JumpsOf(nat, k) # {}
            /\ \A i \in JumpsOf(nat, k) :
                  LET c == JumpTargets(nat)[i]
                  IN  /\ c \in DOMAIN nat
                      /\ IsCreated(c)
                      /\ {DestinationsOf(nat, c)[j] : j \in 1..Len(nat[c])}
                            = OutputStrings(loadbalancers[k])

\* C11: the registry never holds a record with an empty outputs list:
\* UpsertLoadbalancer with an empty list removes the entry of the key, with a
\* non-empty list it stores a record with these outputs and the generation
\* now(); no step of sync() changes the outputs of a record or the keys.
C11_RegistryStep ==
    /\ \A a \in UpsertArgs :
          UpsertLoadbalancer(a[1], a[2]) =>
              IF a[2] = <<>> THEN a[1] \notin DOMAIN loadbalancers'
              ELSE /\ a[1] \in DOMAIN loadbalancers'
                   /\ loadbalancers'[a[1]].Outputs = a[2]
                   /\ loadbalancers'[a[1]].LastUpdate = now
    /\ (task' # 0 \/ EndSync) =>
          /\ DOMAIN loadbalancers' = DOMAIN loadbalancers
          /\ \A k \in DOMAIN loadbalancers : loadbalancers'[k].Outputs = loadbalancers[k].Outputs

C11_Registry ==
    /\ [](\A k \in DOMAIN loadbalancers : Len(loadbalancers[k].Outputs) >= 1)
    /\ [][C11_RegistryStep]_vars

\* task 2 of a sync has given a record a new generation and left its outputs
C11_Witness ==
    /\ task = 10
    /\ In1 \in DOMAIN loadbalancers
    /\ loadbalancers[In1].LastUpdate > pre.lbs[In1].LastUpdate
    /\ loadbalancers[In1].Outputs = <<Out1, Out2>>

\* C12: once UpsertLoadbalancer has returned, nothing the caller does to the
\* value it passed changes the stored record: here, overwriting an element of
\* the value's outputs in place leaves the registry as it is.
C12_StoredCopy ==
    [][\A a \in OverwriteArgs :
          CallerOverwritesOutput(a[1], a[2], a[3]) => loadbalancers' = loadbalancers]_vars

\* C13: sync() holds the mutex from the start of T1 to the end of T10: a sync
\* starts only when none runs, no call of UpsertLoadbalancer or
\* DeleteLoadbalancer takes effect while one runs, and every task finds the
\* registry the sync started with, but for the generations task 2 has raised.
C13_SyncStep ==
    /\ (task' = 1 /\ task # 1) => task = 0
    /\ (task # 0 /\ task' # 0 /\ loadbalancers' # loadbalancers) => task = 2 /\ task' = 2
    /\ \A a \in UpsertArgs : UpsertLoadbalancer(a[1], a[2]) => task = 0 /\ task' = 0
    /\ \A k \in Inputs : DeleteLoadbalancer(k) => task = 0 /\ task' = 0

C13_Mutex ==
    /\ [](task # 0 =>
             /\ DOMAIN loadbalancers = DOMAIN pre.lbs
             /\ \A k \in DOMAIN loadbalancers :
                   \/ loadbalancers[k] = pre.lbs[k]
                   \/ /\ task >= 2
                      /\ loadbalancers[k] = [pre.lbs[k] EXCEPT !.LastUpdate = now])
    /\ [][C13_SyncStep]_vars

\* a later task of a sync runs on the registry as task 2 left it
C13_Witness ==
    /\ task = 3
    /\ In2 \in DOMAIN loadbalancers
    /\ loadbalancers[In2].LastUpdate > pre.lbs[In2].LastUpdate

\* C14: Stop() does not return while a sync() that the loop started is still
\* executing.
C14_StopWaits == stopPc = 2 => task = 0

\* C15: sync() starts its ten tasks in the order T1..T10, each one after the
\* one before it has returned and with a listing of the nat chains taken then,
\* after that task's mutations; when the listing for a task fails, the error is
\* counted, that task does nothing and the next task starts all the same.
C15_TaskStep ==
    /\ task' # task =>
          \/ task < 10 /\ task' = task + 1 /\ todo = {} /\ pend = <<>>
          \/ task = 10 /\ task' = 0 /\ todo = {} /\ pend = <<>>
          \/ task' = 0 /\ inj' = inj + 1
    /\ (task' # task /\ task' # 0) =>
          \/ allChains' = DOMAIN nat /\ nat' = nat
          \/ \E n \in 1..10 : ListChainsFails(n)
    /\ \A n \in 1..10 :
          ListChainsFails(n) =>
              /\ task' = n
              /\ todo' = {} /\ pend' = <<>>
              /\ nat' = nat /\ filter' = filter /\ loadbalancers' = loadbalancers
              /\ errors' = Errors0(n) + 1
              /\ Ready(n + 1)'

C15_TaskOrder == [][C15_TaskStep]_vars

\* the listing for task 3 failed: the forward chain is missing and task 3 has
\* returned without trying to create it
C15_Witness ==
    /\ task = 3
    /\ todo = {} /\ pend = <<>>
    /\ lastOp = NoOp
    /\ errors = 1
    /\ forwardChainName \notin DOMAIN filter

\* C16: TryParseChainID ends, for every chain name, with a ChainID or with one
\* of its errors, and never with a panic; this holds for the names of 28
\* characters with the prefix whose rest is base64 of 16, 17 or 18 bytes.
C16_ParseTotal ==
    wire.op = "TryParseChainID" =>
        wire.res.kind \in {"ok", "invalid length", "no prefix", "no base64", "invalid CRC"}

\* a name with a payload of 16 bytes has been parsed: the four bytes of the
\* content hash are read up to the capacity of the decoded slice
C16_Witness ==
    /\ wire.op = "TryParseChainID"
    /\ wire.from = "foreign"
    /\ wire.name = chainIDPrefixWire \o EncodeToString(SubSeq(wire.buf, 1, 16))
    /\ wire.res.kind = "ok"

\* C18: for every ChainID built by NewChainID, TryParseChainID of its String()
\* succeeds and gives the same crc, protocol, address, port, lastUpdate, state
\* and contentHash.
C18_RoundTrip ==
    (wire.op = "TryParseChainID" /\ wire.from = "String") =>
        /\ wire.res.kind = "ok"
        /\ wire.res.id = wire.id
        /\ Len(wire.name) = 28

\* the name of a ChainID with the highest port and an unknown protocol was parsed
C18_Witness ==
    /\ wire.op = "TryParseChainID"
    /\ wire.from = "String"
    /\ wire.id.Port = 65535
    /\ wire.id.Protocol = 255
    /\ wire.id.ContentHash = 42133742

\* C19: a name whose payload differs from a ChainID's in one byte of the crc,
\* protocol, address and port part is rejected with the invalid-CRC error, which
\* reports the crc byte of the name and the crc computed from its bytes.
C19_CRCMismatch ==
    (wire.op = "TryParseChainID" /\ wire.from = "overwritten") =>
        /\ wire.res.kind = "invalid CRC"
        /\ wire.res.got = wire.buf[1]
        /\ wire.res.expected = PearsonHashWire(SubSeq(wire.buf, 2, 8))
        /\ wire.res.got # wire.res.expected

\* the low byte of the port was overwritten and the name parsed
C19_Witness ==
    /\ wire.op = "TryParseChainID"
    /\ wire.from = "overwritten"
    /\ wire.buf[1] = chainIDBuf(wire.id)[1]
    /\ wire.buf[8] # chainIDBuf(wire.id)[8]

\* C17: sync() issues its nat operations only on the main chain and on chains
\* whose name parses as a ChainID: the built-in chains and the chains whose
\* name does not parse exist and hold their rules throughout every sync.
C17_ForeignChains ==
    /\ (lastOp.op # "none" /\ lastOp.table = NATTable) =>
          /\ lastOp.chain = mainChainName \/ TryParseChainID(lastOp.chain).ok
          /\ lastOp.op = "rename" => TryParseChainID(lastOp.to).ok
    /\ task # 0 =>
          \A c \in DOMAIN nat \cup DOMAIN pre.nat :
              (c # mainChainName /\ ~TryParseChainID(c).ok) =>
                  c \in DOMAIN nat /\ c \in DOMAIN pre.nat /\ nat[c] = pre.nat[c]
    /\ \A c \in DOMAIN InitNat : c \in DOMAIN nat /\ nat[c] = InitNat[c]
    /\ BadCRCChain \in DOMAIN nat => nat[BadCRCChain] = ForeignRules

\* task 9 has deleted the chain of a loadbalancer that left the registry; the
\* chain with the same key and a wrong checksum is still there
C17_Witness ==
    /\ task = 9
    /\ lastOp.op = "deletechain"
    /\ lastOp.ok
    /\ KeyOf(lastOp.chain) = In1
    /\ BadCRCChain \in DOMAIN pre.nat
    /\ nat[BadCRCChain] = ForeignRules

\* what iptables shows for the two forward rules of an endpoint
ForwardRulesOf(endpoint, prot) ==
    {Canonical(getSrcForwardRuleStringForEndpointAndProt(endpoint, prot)),
     Canonical(getDstForwardRuleStringForEndpointAndProt(endpoint, prot))}

\* C20: when task 4 of a sync has returned and no operation of the sync has
\* failed, the forward chain holds, for every output of every registered
\* loadbalancer, the source rule and the destination rule of exactly that
\* address, port and protocol, whatever else the chain held.
C20_ForwardEntries ==
    (task = 4 /\ todo = {} /\ pend = <<>> /\ failed = 0) =>
        \A k \in DOMAIN loadbalancers :
            \A i \in 1..Len(loadbalancers[k].Outputs) :
                ForwardRulesOf(loadbalancers[k].Outputs[i], loadbalancers[k].Protocol)
                    \subseteq SeqToSet(filter[forwardChainName])

\* the endpoints the rules of the chains that parse DNAT to
ReferencedEndpoints ==
    UNION {chainDestinations(ChainIDString(c)).eps : c \in findChainIDs(DOMAIN nat)}

\* task 10 could gather the referenced endpoints from every chain
Gathered ==
    \A c \in findChainIDs(DOMAIN nat) : chainDestinations(ChainIDString(c)).ok

\* how often a rule occurs in a list of rules
Occurrences(rs, r) == Cardinality({i \in 1..Len(rs) : rs[i] = r})

\* the rules of the forward chain as task 10 listed them
ListedForwardRules ==
    [i \in 1..(Len(rules) - 1) |-> stripNARules(rules[i + 1])]

\* C21: while task 10 runs, a forward rule it has deleted has an endpoint
\* that no rule of any chain of the nat table has as its --to-destination;
\* every listed forward rule whose endpoint is such a destination is still in
\* the forward chain as often as it was listed; and when task 10 has returned
\* from a sync without failure, gathered from every chain, every forward rule
\* left with an endpoint has a referenced one.
C21_ForwardCleanup ==
    (task = 10 /\ rules # <<>>) =>
        /\ (lastOp.op = "delete" /\ lastOp.ok) =>
               getDestinationFromForwardRule(Canonical(lastOp.spec)).ep
                   \notin ReferencedEndpoints
        /\ \A i \in 1..Len(ListedForwardRules) :
               LET r == ListedForwardRules[i]
               IN  (getDestinationFromForwardRule(r).ok
                    /\ getDestinationFromForwardRule(r).ep \in ReferencedEndpoints)
                   => Occurrences(filter[forwardChainName], r)
                          = Occurrences(ListedForwardRules, r)
        /\ (pend = <<>> /\ failed = 0 /\ Gathered) =>
               \A i \in 1..Len(filter[forwardChainName]) :
                   LET dest == getDestinationFromForwardRule(filter[forwardChainName][i])
                   IN  dest.ok => dest.ep \in ReferencedEndpoints

\* C21 witness: task 10 has deleted the forward rule of an endpoint no chain
\* leads to, and the forward chain still holds a rule of a referenced endpoint
C21_Witness ==
    /\ task = 10
    /\ lastOp.op = "delete"
    /\ lastOp.ok
    /\ \E i \in 1..Len(filter[forwardChainName]) :
          /\ getDestinationFromForwardRule(filter[forwardChainName][i]).ok
          /\ getDestinationFromForwardRule(filter[forwardChainName][i]).ep
                \in ReferencedEndpoints

\* task 10 begins, has listed the forward chain and cannot gather the
\* referenced endpoints: the listing of a chain fails, or a rule of a chain
\* has no destination
GatherFails ==
    /\ task = 9
    /\ task' = 10
    /\ rules' # <<>>
    /\ (failed' > failed \/ ~Gathered)

C22_Step ==
    /\ GatherFails => (pend' = <<>> /\ todo' = {} /\ filter' = filter)
    /\ (task = 10 /\ pend = <<>>) => filter' = filter

\* C22: when task 10 cannot gather the referenced endpoints (the listing of
\* the rules of a chain fails, or a rule of a chain has no destination), it
\* decides on no delete, and nothing changes the filter table until the sync
\* has returned.
C22_SafetySkip == [][C22_Step]_vars

\* C22 witness: task 10 has failed to list a chain and has issued nothing,
\* while the forward chain holds a rule whose endpoint no chain leads to
C22_Witness ==
    /\ task = 10
    /\ rules # <<>>
    /\ pend = <<>>
    /\ lastOp = NoOp
    /\ Gathered
    /\ \E i \in 1..Len(filter[forwardChainName]) :
          /\ getDestinationFromForwardRule(filter[forwardChainName][i]).ok
          /\ getDestinationFromForwardRule(filter[forwardChainName][i]).ep
                \notin ReferencedEndpoints

\* C23: while a sync runs, the error counter has risen by at least the number
\* of primitive operations that have failed in it.
C23_ErrorsCounted == task # 0 => errors >= failed

\* the kernel holds what the registry asks for and nothing else: for every
\* loadbalancer one chain, Created, of its generation, with its outputs as
\* destinations, one jump, to that chain, and the forward rules of its outputs;
\* no other chain, jump or forward rule
Desired ==
    /\ \A k \in DOMAIN loadbalancers :
          /\ \E c \in DOMAIN nat :
                /\ ChainsOf(nat, k) = {c}
                /\ IsCreated(c)
                /\ GenerationOf(c) = loadbalancers[k].LastUpdate
                /\ Len(nat[c]) = Len(loadbalancers[k].Outputs)
                /\ {DestinationsOf(nat, c)[i] : i \in 1..Len(nat[c])}
                      = OutputStrings(loadbalancers[k])
                /\ Cardinality(JumpsOf(nat, k)) = 1
                /\ \A i \in JumpsOf(nat, k) : JumpTargets(nat)[i] = c
          /\ forwardChainName \in DOMAIN filter
          /\ \A i \in 1..Len(loadbalancers[k].Outputs) :
                ForwardRulesOf(loadbalancers[k].Outputs[i], loadbalancers[k].Protocol)
                    \subseteq SeqToSet(filter[forwardChainName])
    /\ \A c \in LBChains(nat) : \E k \in DOMAIN loadbalancers : c \in ChainsOf(nat, k)
    /\ \A i \in 1..Len(JumpTargets(nat)) :
          \E k \in DOMAIN loadbalancers : i \in JumpsOf(nat, k)
    /\ forwardChainName \in DOMAIN filter =>
          \A i \in 1..Len(filter[forwardChainName]) :
              LET dest == getDestinationFromForwardRule(filter[forwardChainName][i])
              IN  dest.ok =>
                      \E k \in DOMAIN loadbalancers : dest.ep \in OutputStrings(loadbalancers[k])

\* C24: when the registry calls have ended, nobody else edits the tables,
\* operations no longer fail and sync() goes on being run to its end, the
\* kernel gets into the desired state and stays there.
C24_Convergence == ([]<>SyncDone /\ []<>(task = 0)) => <>[]Desired


\* C25: for a range text A.B.C.X-Y:P, TryParseEndpoints returns the Y-X+1
\* endpoints A.B.C.X .. A.B.C.Y on port P in ascending order when X <= Y <= 255,
\* and an error and no endpoints when X > Y, when Y > 255 or when Y is missing
C25_RangeLaw ==
    (wire.op = "TryParseEndpoints" /\ wire.from = "range") =>
        LET x == wire.id.x
            y == Atoi(wire.id.y)
            got == wire.res
        IN  /\ (y >= 0 /\ x <= y /\ y <= 255) =>
                /\ got.err = ""
                /\ Len(got.endpoints) = y - x + 1
                /\ \A i \in 1..Len(got.endpoints) :
                      /\ IPEqual(got.endpoints[i].IP, wire.id.net \o <<x + i - 1>>)
                      /\ got.endpoints[i].Port = wire.id.port
            /\ (wire.id.y = <<>> \/ (y >= 0 /\ (x > y \/ y > 255))) =>
                /\ got.err # ""
                /\ got.endpoints = <<>>

\* C25 witness: the range 0-255 gave 256 endpoints
C25_Witness ==
    /\ wire.op = "TryParseEndpoints"
    /\ wire.from = "range"
    /\ wire.id.x = 0
    /\ wire.id.y = <<"2", "5", "5">>
    /\ wire.res.err = ""
    /\ Len(wire.res.endpoints) = 256
    /\ To4(wire.res.endpoints[256].IP) = wire.id.net \o <<255>>


\* C26: with a provider that always reports unhealthy, every CheckHealth raises
\* the retention until it is MaxRetention, and from then on it stays
\* MaxRetention: it never exceeds MaxRetention and never changes again
C26_Step ==
    (wire.op = "HealthCheck" /\ wire'.op = "HealthCheck" /\ wire'.res.sick) =>
        /\ wire'.id.Retention <= wire.id.MaxRetention
        /\ wire.id.Retention < wire.id.MaxRetention =>
              wire'.id.Retention > wire.id.Retention
        /\ wire.id.Retention >= wire.id.MaxRetention =>
              wire'.id.Retention = wire.id.Retention

C26_BackOff == [][C26_Step]_vars

\* C27: a CheckHealth that reports healthy sets the retention to the base
\* interval, the default retention plus at most half a second, whatever the
\* retention was before
C27_Reset ==
    (wire.op = "HealthCheck" /\ wire.res.calls > 0 /\ wire.id.Healthy) =>
        /\ wire.id.Retention >= defaultRetention
        /\ wire.id.Retention <= defaultRetention + (defaultRetention \div 2)

\* C27 witness: a healthy check after unhealthy ones had raised the retention
\* to MaxRetention or more
C27_Witness ==
    /\ wire.op = "HealthCheck"
    /\ wire.id.Healthy
    /\ wire.res.before >= wire.id.MaxRetention
    /\ wire.id.Retention = defaultRetention


IsCreating(c) == TryParseChainID(c).ok /\ TryParseChainID(c).id.State = ChainCreating

\* createChainForLB has made the chain in the running visit and not yet renamed it
Building(c) ==
    task # 0 /\ pend # <<>> /\ pend[1].chain = c /\ pend[1].op \in {"append", "rename"}

\* the chains left in state Creating by a build that was given up
Stuck == {c \in DOMAIN nat : IsCreating(c) /\ ~Building(c)}

\* C28: when task 1 has run without a failure the nat table holds no chain in
\* state Creating; and a step of a sync leaves a chain stuck in state Creating
\* as it is, flushes it or deletes it: it gets no rule and is not renamed
C28_Step ==
    /\ (task' = 1 /\ todo' = {} /\ pend' = <<>> /\ failed' = 0) =>
           \A c \in DOMAIN nat' : ~IsCreating(c)
    /\ task # 0 =>
           \A c \in Stuck :
               IF c \in DOMAIN nat'
               THEN (nat'[c] = nat[c] \/ nat'[c] = <<>>) /\ ~Building(c)'
               ELSE DOMAIN nat' = DOMAIN nat \ {c}

NewlyCreated == {c \in DOMAIN nat' \ DOMAIN nat : IsCreated(c)}

\* C29: no jump of the main chain targets a chain in state Creating; the
\* controller appends a jump only to an existing chain in state Created; and a
\* chain comes to be in state Created only by the rename that ends
\* createChainForLB, when it holds one DNAT rule for every output of its
\* load balancer
C29_Step ==
    /\ \A i \in 1..Len(JumpTargets(nat')) : ~IsCreating(JumpTargets(nat')[i])
    /\ (task' = 7 /\ lastOp'.op = "append" /\ lastOp'.ok) =>
           /\ lastOp'.chain = mainChainName
           /\ TargetOf(lastOp'.spec) \in DOMAIN nat
           /\ IsCreated(TargetOf(lastOp'.spec))
    /\ \A c \in NewlyCreated :
           /\ lastOp'.op = "rename"
           /\ lastOp'.ok
           /\ lastOp'.to = c
           /\ IsCreating(lastOp'.chain)
           /\ ~Referenced(nat, lastOp'.chain)
           /\ DestinationsOf(nat', c)
                  = [n \in 1..Len(loadbalancers[pend[1].lb].Outputs) |->
                        EndpointString(loadbalancers[pend[1].lb].Outputs[
                            Len(loadbalancers[pend[1].lb].Outputs) + 1 - n])]

C29_JumpsToCreated == [][C29_Step]_vars

\* C29 witness: task 7 has appended the jump to a chain that task 6 of the same
\* sync built with two rules and renamed
C29_Witness ==
    /\ task = 7
    /\ lastOp.op = "append"
    /\ lastOp.ok
    /\ IsCreated(TargetOf(lastOp.spec))
    /\ TargetOf(lastOp.spec) \notin DOMAIN pre.nat
    /\ Len(nat[TargetOf(lastOp.spec)]) = 2


\* the Created chains whose name carries the hash of their listing
Intact(tbl) == {c \in DOMAIN tbl : IsCreated(c) /\ HashMatches(tbl, c)}

\* task 2 has listed and hashed chains in the step
HashedInStep == IF task = 2 /\ task' = 2 THEN todo \ todo' ELSE {}

\* C30: a chain renamed to state Created carries in its name the hash of its
\* listing under the new name; the controller changes the rules of such a chain
\* only by flushing it; and task 2 leaves the generation of a load balancer
\* alone when the chains it hashed carry the hash of their listing
C30_Step ==
    /\ (lastOp'.op = "rename" /\ lastOp'.ok) =>
           /\ lastOp'.to \in Intact(nat')
           /\ nat'[lastOp'.to] = nat[lastOp'.chain]
           /\ TryParseChainID(lastOp'.to).id.ContentHash
                  = calculateHashForRules(ListLines(nat, lastOp'.chain))
    /\ task # 0 =>
           \A c \in Intact(nat) :
               (c \in DOMAIN nat' /\ nat'[c] # nat[c]) =>
                   (lastOp'.op = "clear" /\ lastOp'.chain = c /\ nat'[c] = <<>>)
    /\ (HashedInStep # {}
            /\ \A c \in HashedInStep :
                  ChainIDString(c) \in DOMAIN nat => ChainIDString(c) \in Intact(nat)) =>
           loadbalancers' = loadbalancers

C30_HashOfListing == [][C30_Step]_vars

\* C30 witness: task 2 of a later sync has hashed a chain of two rules that an
\* earlier sync built, and the registry is as it was
C30_Witness ==
    /\ task = 2
    /\ todo = {}
    /\ failed = 0
    /\ loadbalancers = pre.lbs
    /\ \E c \in Intact(nat) :
          /\ c \in DOMAIN pre.nat
          /\ Len(nat[c]) = 2
          /\ KeyOf(c) \in DOMAIN loadbalancers
          /\ GenerationOf(c) = loadbalancers[KeyOf(c)].LastUpdate

\* ------------------------------------------------- C31: one jump per key
\* task 8 has listed the main chain, visited every key and issued its deletes,
\* and nothing failed in this sync
AfterTask(n) == task = n /\ todo = {} /\ pend = <<>> /\ failed = 0

\* the generations of the jumps of a key that task 8 listed
ListedGenerations(k) ==
    {c.LastUpdate : c \in {c \in SeqToSet(JumpChainIDs(JumpRules(rules))) :
                              AsLoadbalancerKey(c) = k}}

\* C31: after task 8 without a failure, the main chain holds no jump for a key
\* that is not in the registry, and for a key of the registry at most one jump,
\* the one to the chain of the highest lastUpdate among the jumps listed
C31_OneJumpPerKey ==
    AfterTask(8) =>
        \A i \in 1..Len(JumpTargets(nat)) :
            TryParseChainID(JumpTargets(nat)[i]).ok =>
                LET k == KeyOf(JumpTargets(nat)[i])
                IN  /\ k \in DOMAIN loadbalancers
                    /\ JumpsOf(nat, k) = {i}
                    /\ \A g \in ListedGenerations(k) : g <= GenerationOf(JumpTargets(nat)[i])

\* ------------------------------------------- C32: unreferenced chains go
\* the names the jumps listed by the running task point to
ListedTargets == {ChainIDString(c) : c \in SeqToSet(JumpChainIDs(JumpRules(rules)))}

\* C32: after task 9 of a sync without a failure every chain of the nat table
\* whose name parses as a chain id is the target of a jump of the main chain,
\* and task 9 neither plans nor issues a flush or a delete of a chain that a
\* jump pointed to when the task listed the main chain
C32_OnlyReferencedRemain ==
    /\ AfterTask(9) =>
          \A c \in DOMAIN nat :
              TryParseChainID(c).ok =>
                  \E i \in 1..Len(JumpTargets(nat)) : JumpTargets(nat)[i] = c
    /\ task = 9 =>
          /\ \A i \in 1..Len(pend) : pend[i].chain \notin ListedTargets
          /\ lastOp.op \in {"clear", "deletechain"} => lastOp.chain \notin ListedTargets

\* ------------------------------------------ C39: the name of a parsed id
\* C39: for every name TryParseChainID accepts, the String() of the ChainID it
\* returns is that name
C39_StringOfParsed ==
    (wire.op = "TryParseChainID" /\ wire.res.kind = "ok") =>
        ChainIDStringWire(wire.res.id) = wire.name

\* ------------------------------------------- C33: generations of a key
\* a step stores a record for a key that had one: the generation does not go
\* down
GenerationKept(k) == loadbalancers'[k].LastUpdate >= loadbalancers[k].LastUpdate

\* and with the same generation the outputs are the same
TieKeepsOutputs(k) ==
    loadbalancers'[k].LastUpdate = loadbalancers[k].LastUpdate =>
        loadbalancers'[k].Outputs = loadbalancers[k].Outputs

C33_Step ==
    \A k \in DOMAIN loadbalancers \cap DOMAIN loadbalancers' :
        GenerationKept(k) /\ TieKeepsOutputs(k)

\* C33: over UpsertLoadbalancer calls and the bumps of task 2 the generation of
\* a key in the registry never decreases, and two records stored one after the
\* other for a key with the same generation have the same outputs
C33_Generations == [][C33_Step]_vars

\* ------------------------------------------------ C34: healthy outputs only
\* C34: the outputs of the record in the registry are endpoints whose most
\* recent health event delivered to the updater reported healthy
C34_HealthyOutputs ==
    (wire.op = "feed" /\ In1 \in DOMAIN loadbalancers) =>
        \A e \in FeedOuts :
            EndpointsContain(loadbalancers[In1].Outputs, Output(e)) =>
                wire.res.last[e] = "healthy"

\* ------------------------------------------------ C35: the feed shuts down
FeedStopped ==
    /\ wire.op = "feed"
    /\ \A e \in FeedOuts : wire.res.monitor[e] = "returned" /\ wire.res.aggregator[e] = "returned"

\* C35: once the stop channel is closed, every aggregator goroutine and every
\* Monitor goroutine terminates in the end
C35_FeedStops == (wire.op = "feed" /\ wire.res.stopChan) ~> FeedStopped

\* ------------------------------------------------------- C36: the gauges
C36_Step ==
    EndSyncMetrics =>
        /\ wire'.id.LBHealthy = Cardinality(DOMAIN loadbalancers')
        /\ \A key \in DOMAIN wire'.id.LBHealthyEndpoints :
              wire'.id.LBHealthyEndpoints[key] =
                  IF key \in DOMAIN loadbalancers' THEN Len(loadbalancers'[key].Outputs)
                  ELSE 0

\* C36: at the end of every sync the gauge of the load balancers is the number
\* of records in the registry, and the gauge of healthy endpoints of every key
\* reported so far is the number of outputs the key has in the registry, 0 when
\* it has no record
C36_Gauges == [][C36_Step]_vars

\* ------------------------------------- C37: the jump follows the registry
\* C37: after a sync in which no primitive operation failed, every load
\* balancer of the registry has a jump in the main chain, and the jumps of its
\* key target an existing Created chain whose lastUpdate is the generation of
\* the record, whatever the kernel held when the controller started
C37_JumpOfGeneration ==
    CleanSyncDone =>
        \A k \in DOMAIN loadbalancers :
            /\ JumpsOf(nat, k) # {}
            /\ \A i \in JumpsOf(nat, k) :
                  /\ JumpTargets(nat)[i] \in DOMAIN nat
                  /\ IsCreated(JumpTargets(nat)[i])
                  /\ GenerationOf(JumpTargets(nat)[i]) = loadbalancers[k].LastUpdate

\* ------------------------------------------- C38: no sync after Stop()
\* C38: once Stop() has returned, the loop goroutine begins no further sync()
C38_NoSyncAfterStop == [][stopPc = 2 => ~(task = 0 /\ task' # 0)]_vars

\* ------------------------------------ C40: forward rules before the jump
\* the endpoints the rules of a chain of the nat table DNAT to
DNATEndpoints(c) ==
    {getDestinationFromRule(nat[c][j]).ep :
        j \in {n \in 1..Len(nat[c]) : getDestinationFromRule(nat[c][n]).ok}}

\* C40: whenever a chain of a load balancer is the target of a jump of the
\* main chain, the forward chain holds the source rule and the destination
\* rule of every endpoint the chain DNATs to
C40_ForwardBeforeJump ==
    \A i \in 1..Len(JumpTargets(nat)) :
        LET c == JumpTargets(nat)[i]
        IN  (TryParseChainID(c).ok /\ c \in DOMAIN nat) =>
                \A e \in DNATEndpoints(c) :
                    /\ forwardChainName \in DOMAIN filter
                    /\ ForwardRulesOf(e, TryParseChainID(c).id.Protocol)
                          \subseteq SeqToSet(filter[forwardChainName])

====
